---- MODULE Spec2Model ----
(***************************************************************************)
(* Proof helper engine of the light client (ton_client/src/proofs/engine.rs) *)
(* as a state machine over the persistent proof storage and the indexer     *)
(* ("DApp server") it queries.                                              *)
(***************************************************************************)
EXTENDS Integers, Sequences, FiniteSets, TLC

VARIABLES
    storage,     \* ProofStorage: storage key -> stored value
    keyBlocks,   \* the chain: which masterchain seq_nos are key blocks
    head,        \* the indexer has masterchain blocks 1..head
    fault,       \* what the indexer currently gets wrong (at most one thing)
    call,        \* the engine call that just returned: input, outcome, event log
    pq,          \* preprocess_query_result: input rows and output
    nk,          \* gen_storage_key: two network uids, a logical key, both keys
    sh,          \* check_shard_block: the shard world, the input and the outcome
    tasks        \* concurrent load_key_block_proof calls: where each one stands

vars == <<storage, keyBlocks, head, fault, call, pq, nk, sh, tasks>>

\* ---------------------------------------------------------------- bounds
MaxSeq == 6          \* masterchain seq_nos of the model are 0..MaxSeq (+1 for a next block)
TrustedSeqNo == 3    \* seq_no of the configured trusted key block
PageLimit == 2       \* rows the indexer returns per query

\* Option<T>
None == [none |-> TRUE]
Some(v) == [some |-> v]

Max(a, b) == IF a >= b THEN a ELSE b
Min(a, b) == IF a <= b THEN a ELSE b
Last(s) == s[Len(s)]

\* ---------------------------------------------------------------- hashes
RootHash(s) == <<"root", s>>
AltRootHash(s) == <<"root_alt", s>>
FileHash(s) == <<"file", s>>
AltFileHash(s) == <<"file_alt", s>>

\* resolve_initial_trusted_key_block: the configured anchor
TrustedId == [seq_no |-> TrustedSeqNo, root_hash |-> RootHash(TrustedSeqNo)]

\* ---------------------------------------------------------------- the shard chain
MaxShardSeq == 3     \* the shard chain of the model has blocks 1..MaxShardSeq

TargetShard == [workchain_id |-> 0, prefix |-> "8000000000000000"]
OtherShard == [workchain_id |-> 1, prefix |-> "8000000000000000"]

\* the root hash of a shard block is the hash of its content: here the content itself
ShardRootHash(b) == <<b.seq_no, b.prev_seq_no, b.prev_root_hash, b.master_ref, b.salt>>

\* masterchain block m commits the shard block TopAt(m); shard block i refers to the
\* last masterchain block before the one that commits it
TopAt(m) == Min(MaxShardSeq, sh.step * m)
MasterRefOf(i) == (i - 1) \div sh.step

RECURSIVE RealShardBlock(_)
RealShardBlock(i) ==
    [seq_no |-> i,
     prev_seq_no |-> IF i = 0 THEN 0 ELSE i - 1,
     prev_root_hash |-> IF i = 0 THEN <<>> ELSE ShardRootHash(RealShardBlock(i - 1)),
     master_ref |-> IF i = 0 THEN 0 ELSE MasterRefOf(i),
     shard |-> TargetShard,
     salt |-> 0]

\* the shards section of masterchain block m, which the indexer also serves as the
\* master.shard_hashes field of the block's row
ShardsOf(m) ==
    <<[workchain_id |-> OtherShard.workchain_id, shard |-> OtherShard.prefix,
       descr |-> [seq_no |-> MaxShardSeq, root_hash |-> <<"other">>]],
      [workchain_id |-> TargetShard.workchain_id, shard |-> TargetShard.prefix,
       descr |-> [seq_no |-> TopAt(m), root_hash |-> ShardRootHash(RealShardBlock(TopAt(m)))]]>>

\* the master.shard_hashes field the indexer serves in the row of masterchain block
\* m: the shards section of the block, or one that claims the newest shard block
ShardHashesOf(m) ==
    IF fault.kind \in {"shards_ahead", "shards_ahead_unfiltered"} /\ fault.seq = m
    THEN [k \in 1..Len(ShardsOf(m)) |->
             IF ShardsOf(m)[k].workchain_id = TargetShard.workchain_id
             THEN [ShardsOf(m)[k] EXCEPT
                      !.descr = [seq_no |-> MaxShardSeq,
                                 root_hash |-> ShardRootHash(RealShardBlock(MaxShardSeq))]]
             ELSE ShardsOf(m)[k]]
    ELSE ShardsOf(m)

\* ---------------------------------------------------------------- the indexer
Faults ==
    {[kind |-> "none", seq |-> 0], [kind |-> "zs_bad", seq |-> 0], [kind |-> "zs_missing", seq |-> 0],
     [kind |-> "surplus", seq |-> 0]}
    \cup [kind : {"gap"}, seq : 1..(MaxSeq + 1)]
    \cup [kind : {"fork_newer_after", "fork_older_after"},
          seq : (TrustedSeqNo - 1)..(TrustedSeqNo + 1)]
    \cup {[kind |-> "wrong_seq_no", seq |-> TrustedSeqNo]}
    \cup [kind : {"unparsable", "forged"}, seq : {TrustedSeqNo + 2}]

\* prev_key_block_seqno recorded in block s: the last key block below s, 0 if none
PrevKeyBlockSeqno(s) ==
    LET below == {k \in keyBlocks : k < s}
    IN IF below = {} THEN 0 ELSE CHOOSE k \in below : \A j \in below : j <= k

CanonRow(s) ==
    [seq_no |-> s, gen_utime |-> 10 * s, root_hash |-> RootHash(s),
     key_block |-> s \in keyBlocks, prev_key |-> PrevKeyBlockSeqno(s),
     prev_file_hash |-> FileHash(s - 1), boc_root_hash |-> RootHash(s),
     boc_file_hash |-> FileHash(s), file_hash |-> <<>>]

\* a fork candidate of block s: another block on the same parent
AltRow(s, newer) ==
    [CanonRow(s) EXCEPT !.gen_utime = IF newer THEN 10 * s + 1 ELSE 10 * s - 1,
                        !.root_hash = AltRootHash(s),
                        !.boc_root_hash = AltRootHash(s),
                        !.boc_file_hash = AltFileHash(s)]

RowsAt(s) ==
    IF fault.seq # s THEN <<CanonRow(s)>>
    ELSE CASE fault.kind = "gap" -> <<>>
           [] fault.kind = "fork_newer_after" -> <<CanonRow(s), AltRow(s, TRUE)>>
           [] fault.kind = "fork_older_after" -> <<CanonRow(s), AltRow(s, FALSE)>>
           [] fault.kind = "unparsable" -> <<[CanonRow(s) EXCEPT !.prev_key = -1]>>
           [] fault.kind = "forged" -> <<AltRow(s, TRUE)>>
           [] fault.kind = "boc_other" ->
                  <<[CanonRow(s) EXCEPT !.boc_root_hash = AltRootHash(s),
                                        !.boc_file_hash = AltFileHash(s)]>>
           [] OTHER -> <<CanonRow(s)>>

RECURSIVE McRowsUpTo(_)
McRowsUpTo(s) == IF s = 0 THEN <<>> ELSE McRowsUpTo(s - 1) \o RowsAt(s)

\* the masterchain rows of the `blocks` collection, ordered by seq_no ASC
McRows == McRowsUpTo(head)

FirstRows(rows, n) == SubSeq(rows, 1, Min(n, Len(rows)))

\* query_collection on the masterchain with a seq_no filter, sorted by seq_no
\* with the wrong_seq_no fault the query for the single block fault.seq is
\* answered with the row of its successor
QueryMc(key_block, seq_nos) ==
    FirstRows(SelectSeq(McRows,
                        LAMBDA r : /\ (key_block => r.key_block)
                                   /\ IF fault.kind = "wrong_seq_no" /\ ~key_block
                                         /\ seq_nos = {fault.seq}
                                      THEN r.seq_no = fault.seq + 1
                                      ELSE r.seq_no \in seq_nos),
              PageLimit)

\* ---------------------------------------------------------------- fork deduplication
RECURSIVE PreprocessFrom(_, _, _, _, _)
PreprocessFrom(blocks, i, result, last_seq_no, last_gen_utime) ==
    IF i > Len(blocks) THEN [ok |-> TRUE, result |-> result]
    ELSE LET block == blocks[i]
             seq_no == block.seq_no
             gen_utime == block.gen_utime
         IN IF seq_no # last_seq_no
            THEN PreprocessFrom(blocks, i + 1, Append(result, <<seq_no, block>>), seq_no, gen_utime)
            ELSE IF gen_utime > last_gen_utime
                 THEN IF Len(result) = 0
                      THEN [ok |-> FALSE, result |-> result]   \* result.len() - 1 underflows: panic
                      ELSE PreprocessFrom(blocks, i + 1,
                               [result EXCEPT ![Len(result)] = <<seq_no, block>>],
                               last_seq_no, gen_utime)
                 ELSE PreprocessFrom(blocks, i + 1, result, last_seq_no, last_gen_utime)

preprocess_query_result(blocks) == PreprocessFrom(blocks, 1, <<>>, 0, 0)

\* ---------------------------------------------------------------- storage keys
HashPrefixLen == 8

gen_root_hash_prefix(root_hash) == SubSeq(root_hash, 1, Min(HashPrefixLen, Len(root_hash)))

\* a key that carries the zerostate prefix only
gen_storage_key_zerostate_only(network_uid, key) ==
    gen_root_hash_prefix(network_uid.zerostate_root_hash) \o <<"/">> \o key

gen_storage_key(network_uid, key) ==
    gen_root_hash_prefix(network_uid.zerostate_root_hash) \o <<"/">>
        \o gen_root_hash_prefix(network_uid.first_master_block_root_hash) \o <<"/">>
        \o key

ZEROSTATE_KEY == <<"zerostate">>
ZEROSTATE_RIGHT_BOUND_KEY == <<"zs_right_boundary_seq_no">>
mc_proof_key(mc_seq_no) == <<"proof_mc_", mc_seq_no>>
mc_block_key(mc_seq_no) == <<"block_mc_", mc_seq_no>>
trusted_block_right_bound_key(seq_no) == <<"trusted_", seq_no, "_right_boundary_seq_no">>

\* get_current_network_uid: the network the engine runs against
CurrentNetworkUid ==
    [zerostate_root_hash |-> <<"a", "1", "b", "2", "c", "3", "d", "4", "e", "5">>,
     first_master_block_root_hash |-> <<"f", "0", "f", "1", "f", "2", "f", "3", "f", "4">>]

get_storage_key(key) == gen_storage_key(CurrentNetworkUid, key)

\* a store is a function from the storage keys present to their values
get_bin(st, key) ==
    IF get_storage_key(key) \in DOMAIN st THEN Some(st[get_storage_key(key)]) ELSE None

put_bin(st, key, value) ==
    LET k == get_storage_key(key)
    IN [x \in DOMAIN st \cup {k} |-> IF x = k THEN value ELSE st[x]]

\* u32 metadata: 4 little-endian bytes
to_le_bytes(v) == <<v % 256, (v \div 256) % 256, (v \div 65536) % 256, (v \div 16777216) % 256>>
from_le_bytes(b) == b[1] + 256 * b[2] + 65536 * b[3] + 16777216 * b[4]

read_metadata_value_u32(st, key) ==
    LET vec == get_bin(st, key)
    IN IF vec = None THEN None
       ELSE IF Len(vec.some) # 4 THEN None ELSE Some(from_le_bytes(vec.some))

write_metadata_value_u32(st, key, value) == put_bin(st, key, to_le_bytes(value))

\* a process_value that adds the new value to the stored one
sum_value == [prev \in Nat, value \in Nat |-> prev + value]

\* std::cmp::max, which both bound updates pass as process_value
max_value == [prev \in Nat, value \in Nat |-> Max(prev, value)]

\* the match arms of update_metadata_value_u32, after its read has returned prev
update_metadata_value_u32_write(st, key, value, prev, process_value) ==
    IF prev = None THEN write_metadata_value_u32(st, key, value)
    ELSE write_metadata_value_u32(st, key, process_value[prev.some, value])

update_metadata_value_u32(st, key, value, process_value) ==
    update_metadata_value_u32_write(st, key, value, read_metadata_value_u32(st, key),
                                    process_value)

read_zs_right_bound(st) ==
    LET opt == read_metadata_value_u32(st, ZEROSTATE_RIGHT_BOUND_KEY)
    IN IF opt = None THEN 0 ELSE opt.some

update_zs_right_bound(st, seq_no) ==
    update_metadata_value_u32(st, ZEROSTATE_RIGHT_BOUND_KEY, seq_no, max_value)

read_trusted_block_right_bound(st, trusted_seq_no) ==
    LET opt == read_metadata_value_u32(st, trusted_block_right_bound_key(trusted_seq_no))
    IN IF opt = None THEN trusted_seq_no ELSE opt.some

\* a bound update that writes the new value over the stored one
update_trusted_block_right_bound_overwrite(st, trusted_seq_no, right_bound_seq_no) ==
    write_metadata_value_u32(st, trusted_block_right_bound_key(trusted_seq_no), right_bound_seq_no)

update_trusted_block_right_bound(st, trusted_seq_no, right_bound_seq_no) ==
    update_metadata_value_u32(st, trusted_block_right_bound_key(trusted_seq_no),
                              right_bound_seq_no, max_value)

\* a cache read under the key of the block instead of the proof
read_mc_proof_block_key(st, mc_seq_no) == get_bin(st, mc_block_key(mc_seq_no))

\* proofs are stored as JSON strings, blocks as BoC blobs
read_mc_proof(st, mc_seq_no) == get_bin(st, mc_proof_key(mc_seq_no))
write_mc_proof(st, mc_seq_no, value) == put_bin(st, mc_proof_key(mc_seq_no), value)
read_mc_block(st, mc_seq_no) == get_bin(st, mc_block_key(mc_seq_no))
write_mc_block(st, mc_seq_no, boc) == put_bin(st, mc_block_key(mc_seq_no), boc)

\* ---------------------------------------------------------------- engine calls
\* An engine function takes the context c = [st, log] (the store and the events so
\* far) and returns [c, status, val]; status is "ok", "err" (the function returned
\* an error), "hang" (it never returns while the indexer stays as it is) or "panic".
\* the engine's view while a call runs: the store, the events so far and the
\* store as it was after each write (a call dropped at an await leaves one of them)
Ctx(st, log) == [st |-> st, log |-> log, hist |-> <<st>>]
Ok(c, val) == [c |-> c, status |-> "ok", val |-> val]
Err(c) == [c |-> c, status |-> "err", val |-> None]
Hang(c) == [c |-> c, status |-> "hang", val |-> None]
Panic(c) == [c |-> c, status |-> "panic", val |-> None]
Fail(r) == [c |-> r.c, status |-> r.status, val |-> None]
Logged(c, e) == [c EXCEPT !.log = Append(@, e)]
Stored(c, st) == [c EXCEPT !.st = st, !.hist = Append(@, st)]

\* the BoC of a block row; hashing it gives the row's hashes
RowBoc(row) == [seq_no |-> row.seq_no, root_hash |-> row.boc_root_hash, file_hash |-> row.boc_file_hash]
calc_file_hash(boc) == boc.file_hash
repr_hash(boc) == boc.root_hash

\* BlockProof::from_value: a proof row without file_hash, or with a field that is
\* not of its type, does not parse
from_value(proof_json) ==
    IF proof_json.file_hash = <<>> \/ proof_json.prev_key \notin Nat THEN None
    ELSE Some([id |-> [seq_no |-> proof_json.seq_no, root_hash |-> proof_json.root_hash,
                       file_hash |-> proof_json.file_hash],
               prev_key_block_seqno |-> proof_json.prev_key])

\* the signatures of a proof are valid for the canonical block only
SignaturesValid(proof) ==
    /\ proof.id.root_hash = RootHash(proof.id.seq_no)
    /\ proof.id.file_hash = FileHash(proof.id.seq_no)

\* A function that makes several calls is written as its steps: a step takes the result
\* of the call made before it.
query_file_hash_from_next_block_found(c1, blocks) ==
    IF ~blocks.ok THEN Panic(c1)
    ELSE IF Len(blocks.result) = 0 THEN Ok(c1, None)
    ELSE Ok(c1, Some(blocks.result[1][2].prev_file_hash))

query_file_hash_from_next_block(c, mc_seq_no) ==
    query_file_hash_from_next_block_found(
        Logged(c, <<"query", "mc_block", mc_seq_no + 1>>),
        preprocess_query_result(QueryMc(FALSE, {mc_seq_no + 1})))

download_mc_boc_found(c1, blocks) ==
    IF ~blocks.ok THEN Panic(c1)
    ELSE IF Len(blocks.result) = 0 THEN Err(c1)
    ELSE Ok(c1, RowBoc(blocks.result[1][2]))

download_mc_boc_cached(c, cached, mc_seq_no) ==
    IF cached # None THEN Ok(c, cached.some)
    ELSE download_mc_boc_found(Logged(c, <<"query", "mc_block", mc_seq_no>>),
                               preprocess_query_result(QueryMc(FALSE, {mc_seq_no})))

download_mc_boc(c, mc_seq_no) ==
    download_mc_boc_cached(c, read_mc_block(c.st, mc_seq_no), mc_seq_no)

calc_file_hash_of(boc) ==
    IF boc.status # "ok" THEN Fail(boc) ELSE Ok(boc.c, calc_file_hash(boc.val))

download_mc_boc_and_calc_file_hash(c, mc_seq_no) ==
    calc_file_hash_of(download_mc_boc(c, mc_seq_no))

query_mc_block_file_hash_from(next, mc_seq_no) ==
    IF next.status # "ok" THEN Fail(next)
    ELSE IF next.val # None THEN Ok(next.c, next.val.some)
    ELSE download_mc_boc_and_calc_file_hash(next.c, mc_seq_no)

query_mc_block_file_hash(c, mc_seq_no) ==
    query_mc_block_file_hash_from(query_file_hash_from_next_block(c, mc_seq_no), mc_seq_no)

query_mc_proof_with_file_hash(row, file_hash) ==
    IF file_hash.status # "ok" THEN Fail(file_hash)
    ELSE Ok(file_hash.c, [row EXCEPT !.file_hash = file_hash.val])

query_mc_proof_found(c1, blocks) ==
    IF ~blocks.ok THEN Panic(c1)
    ELSE IF Len(blocks.result) = 0 THEN Err(c1)
    ELSE query_mc_proof_with_file_hash(blocks.result[1][2],
                                       query_mc_block_file_hash(c1, blocks.result[1][1]))

query_mc_proof(c, mc_seq_no) ==
    query_mc_proof_found(Logged(c, <<"query", "mc_block", mc_seq_no>>),
                         preprocess_query_result(QueryMc(FALSE, {mc_seq_no})))

RECURSIVE KeyBlocksProofsLoop(_, _, _, _)

KeyBlocksProofsAppend(c1, end, result, page) ==
    IF ~page.ok THEN Panic(c1)
    ELSE KeyBlocksProofsLoop(c1, Last(page.result)[1] + 1, end, result \o page.result)

KeyBlocksProofsPage(c1, end, result, key_blocks) ==
    IF Len(key_blocks) = 0 THEN Ok(c1, result)
    ELSE KeyBlocksProofsAppend(c1, end, result, preprocess_query_result(key_blocks))

KeyBlocksProofsLoop(c, start, end, result) ==
    IF start >= end THEN Ok(c, result)
    ELSE KeyBlocksProofsPage(Logged(c, <<"query", "key_blocks", start, end>>), end, result,
                             QueryMc(TRUE, start..(end - 1)))

query_key_blocks_proofs(c, start, end) == KeyBlocksProofsLoop(c, start, end, <<>>)

\* the first position of `blocks` whose seq_no is not proofs[i].seq_no + 1; 0 if none
RECURSIVE FirstMismatch(_, _, _)
FirstMismatch(expected, blocks, i) ==
    IF i > Len(blocks) THEN 0
    ELSE IF blocks[i][1] # expected[i][1] + 1 THEN i
    ELSE FirstMismatch(expected, blocks, i + 1)

RECURSIVE AddFileHashesLoop(_, _, _)

\* the seq_nos of a list of (seq_no, row) pairs
SeqNosOf(pairs) == [i \in 1..Len(pairs) |-> pairs[i][1]]

\* a page check that drops the blocks beyond the number of proofs
AddFileHashesPage_truncating(c1, done, proofs_sorted, blocks) ==
    LET n == Min(Len(blocks.result), Len(proofs_sorted))
        expected == [i \in 1..n |->
                        <<proofs_sorted[i][1],
                          [proofs_sorted[i][2] EXCEPT !.file_hash = blocks.result[i][2].prev_file_hash]>>]
        c2 == Logged(c1, <<"next_blocks", SeqNosOf(proofs_sorted), SeqNosOf(blocks.result),
                           [i \in 1..n |-> expected[i][2].file_hash]>>)
    IN IF ~blocks.ok THEN Panic(c1)
       ELSE IF FirstMismatch(proofs_sorted, SubSeq(blocks.result, 1, n), 1) # 0 THEN Err(c2)
       ELSE IF n = 0 THEN Hang(c2)
       ELSE AddFileHashesLoop(c2, done \o expected,
                              SubSeq(proofs_sorted, n + 1, Len(proofs_sorted)))

\* the body of the loop after the query: the "next_blocks" event records the seq_nos
\* of the proofs, those of the blocks of the answer and the file hashes taken
AddFileHashesPage(c1, done, proofs_sorted, blocks) ==
    LET n == Len(blocks.result)
        expected == [i \in 1..Min(n, Len(proofs_sorted)) |->
                        <<proofs_sorted[i][1],
                          [proofs_sorted[i][2] EXCEPT !.file_hash = blocks.result[i][2].prev_file_hash]>>]
        c2 == Logged(c1, <<"next_blocks", SeqNosOf(proofs_sorted), SeqNosOf(blocks.result),
                           [i \in 1..Len(expected) |-> expected[i][2].file_hash]>>)
    IN IF ~blocks.ok THEN Panic(c1)
       ELSE IF Len(proofs_sorted) < n THEN Err(c2)
       ELSE IF FirstMismatch(proofs_sorted, blocks.result, 1) # 0 THEN Err(c2)
       ELSE IF n = 0 THEN Hang(c2)     \* the same query is repeated for ever
       ELSE AddFileHashesLoop(c2, done \o expected,
                              SubSeq(proofs_sorted, n + 1, Len(proofs_sorted)))

\* the query for the next blocks; with the surplus fault the indexer adds the block
\* after the last one asked for
QueryNextBlocks(wanted) ==
    IF fault.kind = "surplus"
    THEN QueryMc(FALSE, wanted \cup {1 + CHOOSE m \in wanted : \A w \in wanted : w <= m})
    ELSE QueryMc(FALSE, wanted)

AddFileHashesLoop(c, done, proofs_sorted) ==
    IF Len(proofs_sorted) = 0 THEN Ok(c, done)
    ELSE LET wanted == {proofs_sorted[i][1] + 1 : i \in 1..Len(proofs_sorted)}
         IN AddFileHashesPage(Logged(c, <<"query", "mc_in", wanted>>), done, proofs_sorted,
                              preprocess_query_result(QueryNextBlocks(wanted)))

add_file_hashes(c, proofs_sorted) == AddFileHashesLoop(c, <<>>, proofs_sorted)

\* ---------------------------------------------------------------- zerostate
\* the zerostate BoC the indexer serves, and a BoC with another hash
GoodZerostate == [boc_hash |-> CurrentNetworkUid.zerostate_root_hash]
BadZerostate == [boc_hash |-> <<"0", "0", "0", "0", "0", "0", "0", "0", "0", "0">>]
get_boc_hash(boc) == boc.boc_hash

query_zerostate_boc(c) ==
    LET c1 == Logged(c, <<"query", "zerostates">>)
    IN IF fault.kind = "zs_missing" THEN Err(c1)
       ELSE Ok(c1, IF fault.kind = "zs_bad" THEN BadZerostate ELSE GoodZerostate)

\* a zerostate load that stores whatever the indexer served
load_zerostate_queried_unchecked(boc) ==
    IF boc.status # "ok" THEN Fail(boc)
    ELSE Ok(Logged(Stored(boc.c, put_bin(boc.c.st, ZEROSTATE_KEY, boc.val)),
                   <<"write", "zerostate">>),
            boc.val)

load_zerostate_queried(boc) ==
    IF boc.status # "ok" THEN Fail(boc)
    ELSE IF get_boc_hash(boc.val) # CurrentNetworkUid.zerostate_root_hash THEN Err(boc.c)
    ELSE Ok(Logged(Stored(boc.c, put_bin(boc.c.st, ZEROSTATE_KEY, boc.val)),
                   <<"write", "zerostate">>),
            boc.val)

load_zerostate_cached(c, cached) ==
    IF cached # None THEN Ok(c, cached.some)
    ELSE load_zerostate_queried(query_zerostate_boc(c))

load_zerostate(c) == load_zerostate_cached(c, get_bin(c.st, ZEROSTATE_KEY))

\* ---------------------------------------------------------------- key-block proofs
\* an anchor download that also writes the anchor's right boundary
download_trusted_key_block_proof_queried_bump(proof_json, id) ==
    LET proof == from_value(proof_json.val)
        st1 == write_mc_proof(proof_json.c.st, id.seq_no, proof_json.val)
    IN IF proof_json.status # "ok" THEN Fail(proof_json)
       ELSE IF proof = None THEN Err(proof_json.c)
       ELSE IF proof.some.id.seq_no # id.seq_no THEN Err(proof_json.c)
       ELSE IF proof.some.id.root_hash # id.root_hash THEN Err(proof_json.c)
       ELSE Ok(Logged(Stored(proof_json.c, update_trusted_block_right_bound(st1, id.seq_no, id.seq_no)),
                      <<"write", "proof", id.seq_no>>),
               proof.some)

\* an anchor download that stores the served proof without comparing it with the id
download_trusted_key_block_proof_queried_unchecked(proof_json, id) ==
    LET proof == from_value(proof_json.val)
    IN IF proof_json.status # "ok" THEN Fail(proof_json)
       ELSE IF proof = None THEN Err(proof_json.c)
       ELSE Ok(Logged(Stored(proof_json.c, write_mc_proof(proof_json.c.st, id.seq_no, proof_json.val)),
                      <<"write", "proof", id.seq_no>>),
               proof.some)

download_trusted_key_block_proof_queried(proof_json, id) ==
    LET proof == from_value(proof_json.val)
    IN IF proof_json.status # "ok" THEN Fail(proof_json)
       ELSE IF proof = None THEN Err(proof_json.c)
       ELSE IF proof.some.id.seq_no # id.seq_no THEN Err(proof_json.c)
       ELSE IF proof.some.id.root_hash # id.root_hash THEN Err(proof_json.c)
       ELSE Ok(Logged(Stored(proof_json.c, write_mc_proof(proof_json.c.st, id.seq_no, proof_json.val)),
                      <<"write", "proof", id.seq_no>>),
               proof.some)

download_trusted_key_block_proof(c, id) ==
    download_trusted_key_block_proof_queried(query_mc_proof(c, id.seq_no), id)

require_trusted_key_block_proof(c, id) ==
    LET value == read_mc_proof(c.st, id.seq_no)
        proof == from_value(value.some)
    IN IF value # None
       THEN (IF proof = None THEN Err(c) ELSE Ok(c, proof.some))
       ELSE download_trusted_key_block_proof(c, id)

\* a hook that moves the bound to the block after the stored one
on_store_block_next(st, side, mc_seq_no) ==
    IF side = "zs" THEN update_zs_right_bound(st, mc_seq_no + 1)
    ELSE update_trusted_block_right_bound(st, TrustedId.seq_no, mc_seq_no + 1)

\* the on_store_block closures of load_key_block_proof
on_store_block(st, side, mc_seq_no) ==
    IF side = "zs" THEN update_zs_right_bound(st, mc_seq_no)
    ELSE update_trusted_block_right_bound(st, TrustedId.seq_no, mc_seq_no)

RECURSIVE load_key_block_proof(_, _)

check_proof_against(prev, proof) ==
    IF prev.status # "ok" THEN Fail(prev)
    ELSE IF ~SignaturesValid(proof) THEN Err(prev.c)
    ELSE Ok(prev.c, proof)

\* BlockProof::check_proof: loads the zerostate or the proof of the previous key
\* block through the engine, then checks the signatures against it
check_proof(c, proof) ==
    check_proof_against(
        IF proof.prev_key_block_seqno = 0
        THEN load_zerostate(Logged(c, <<"check_proof", proof.id.seq_no>>))
        ELSE load_key_block_proof(Logged(c, <<"check_proof", proof.id.seq_no>>),
                                  proof.prev_key_block_seqno),
        proof)

RECURSIVE ProofChainLoop(_, _, _, _, _)

\* a loop body that moves the bound before it stores the proof
ProofChainStore_bound_first(checked, proof_values, i, side, proof) ==
    LET mc_seq_no == proof_values[i][1]
        proof_json == proof_values[i][2]
        st1 == on_store_block(checked.c.st, side, mc_seq_no)
        c1 == Logged(Stored(checked.c, st1), <<"update", side, mc_seq_no>>)
        c2 == Logged(Stored(c1, write_mc_proof(st1, mc_seq_no, proof_json)),
                     <<"write", "proof", mc_seq_no>>)
    IN IF checked.status = "err" THEN Err(Logged(checked.c, <<"rejected", mc_seq_no>>))
       ELSE IF checked.status # "ok" THEN Fail(checked)
       ELSE ProofChainLoop(c2, proof_values, i + 1, side, Some(proof))

\* a loop body that stores the proof whatever check_proof said, and fails afterwards
ProofChainStore_before_verdict(checked, proof_values, i, side, proof) ==
    LET mc_seq_no == proof_values[i][1]
        proof_json == proof_values[i][2]
        st1 == write_mc_proof(checked.c.st, mc_seq_no, proof_json)
        c1 == Logged(Stored(checked.c, st1), <<"write", "proof", mc_seq_no>>)
        c2 == Logged(Stored(c1, on_store_block(st1, side, mc_seq_no)),
                     <<"update", side, mc_seq_no>>)
    IN IF checked.status = "err" THEN Err(Logged(c1, <<"rejected", mc_seq_no>>))
       ELSE IF checked.status # "ok" THEN Fail(checked)
       ELSE ProofChainLoop(c2, proof_values, i + 1, side, Some(proof))

\* the `?` after check_proof: an error ends the loop (the "rejected" event marks it)
ProofChainStore(checked, proof_values, i, side, proof) ==
    LET mc_seq_no == proof_values[i][1]
        proof_json == proof_values[i][2]
        st1 == write_mc_proof(checked.c.st, mc_seq_no, proof_json)
        c1 == Logged(Stored(checked.c, st1), <<"write", "proof", mc_seq_no>>)
        c2 == Logged(Stored(c1, on_store_block(st1, side, mc_seq_no)),
                     <<"update", side, mc_seq_no>>)
    IN IF checked.status = "err" THEN Err(Logged(checked.c, <<"rejected", mc_seq_no>>))
       ELSE IF checked.status # "ok" THEN Fail(checked)
       ELSE ProofChainLoop(c2, proof_values, i + 1, side, Some(proof))

\* a loop that returns the trusted key block's proof when it walked no proof
ProofChainLoop_never_empty(c, proof_values, i, side, last_proof) ==
    IF i > Len(proof_values)
    THEN (IF last_proof = None
          THEN Ok(c, from_value([CanonRow(TrustedSeqNo) EXCEPT !.file_hash = FileHash(TrustedSeqNo)]).some)
          ELSE Ok(c, last_proof.some))
    ELSE LET proof == from_value(proof_values[i][2])
         IN IF proof = None THEN Err(Logged(c, <<"rejected", proof_values[i][1]>>))
            ELSE ProofChainStore(check_proof(c, proof.some), proof_values, i, side, proof.some)

ProofChainLoop(c, proof_values, i, side, last_proof) ==
    IF i > Len(proof_values)
    THEN (IF last_proof = None THEN Err(c) ELSE Ok(c, last_proof.some))
    ELSE LET proof == from_value(proof_values[i][2])
         IN IF proof = None THEN Err(Logged(c, <<"rejected", proof_values[i][1]>>))
            ELSE ProofChainStore(check_proof(c, proof.some), proof_values, i, side, proof.some)

\* a chain download that walks the downloaded proofs from the newest to the oldest
download_proof_chain_hashed_newest_first(with_hashes, side) ==
    IF with_hashes.status # "ok" THEN Fail(with_hashes)
    ELSE ProofChainLoop(with_hashes.c,
                        [i \in 1..Len(with_hashes.val) |->
                            with_hashes.val[Len(with_hashes.val) + 1 - i]],
                        1, side, None)

download_proof_chain_hashed(with_hashes, side) ==
    IF with_hashes.status # "ok" THEN Fail(with_hashes)
    ELSE ProofChainLoop(with_hashes.c, with_hashes.val, 1, side, None)

download_proof_chain_queried(proof_values, side) ==
    IF proof_values.status # "ok" THEN Fail(proof_values)
    ELSE download_proof_chain_hashed(add_file_hashes(proof_values.c, proof_values.val), side)

\* the call has returned, with Ok or an error (a call that hangs never does)
download_proof_chain_returned(r) ==
    IF r.status = "hang" THEN r
    ELSE [r EXCEPT !.c = Logged(r.c, <<"download_proof_chain_end">>)]

download_proof_chain_from(c1, start, end, side) ==
    IF start >= end THEN Err(c1)
    ELSE download_proof_chain_queried(query_key_blocks_proofs(c1, start, end), side)

download_proof_chain(c, start, end, side) ==
    download_proof_chain_returned(
        download_proof_chain_from(Logged(c, <<"download_proof_chain", start, end, side>>),
                                  start, end, side))

\* a selection that always resumes from the stored bound of the side
load_key_block_proof_anchored_resume(anchor, mc_seq_no, trusted_id, zs_right_bound, trusted_right_bound) ==
    IF anchor.status # "ok" THEN Fail(anchor)
    ELSE IF mc_seq_no > trusted_id.seq_no
    THEN download_proof_chain(anchor.c, trusted_right_bound + 1, mc_seq_no + 1, "trusted")
    ELSE download_proof_chain(anchor.c, zs_right_bound + 1, mc_seq_no + 1, "zs")

\* a selection whose last range stops short of the stored trusted bound
load_key_block_proof_anchored_below_bound(anchor, mc_seq_no, trusted_id, zs_right_bound, trusted_right_bound) ==
    IF anchor.status # "ok" THEN Fail(anchor)
    ELSE IF mc_seq_no > trusted_right_bound
    THEN download_proof_chain(anchor.c, trusted_right_bound + 1, mc_seq_no + 1, "trusted")
    ELSE IF mc_seq_no < trusted_id.seq_no /\ mc_seq_no > zs_right_bound
    THEN download_proof_chain(anchor.c, zs_right_bound + 1, mc_seq_no + 1, "zs")
    ELSE IF mc_seq_no <= zs_right_bound
    THEN download_proof_chain(anchor.c, 1, mc_seq_no + 1, "zs")
    ELSE IF mc_seq_no > trusted_id.seq_no /\ mc_seq_no < trusted_right_bound
    THEN download_proof_chain(anchor.c, trusted_id.seq_no + 1, mc_seq_no + 1, "trusted")
    ELSE Panic(Logged(anchor.c, <<"unreachable", mc_seq_no, zs_right_bound, trusted_right_bound>>))

\* a selection that hands the trusted side's hook to the chain below the trusted block
load_key_block_proof_anchored_one_hook(anchor, mc_seq_no, trusted_id, zs_right_bound, trusted_right_bound) ==
    IF anchor.status # "ok" THEN Fail(anchor)
    ELSE IF mc_seq_no > trusted_right_bound
    THEN download_proof_chain(anchor.c, trusted_right_bound + 1, mc_seq_no + 1, "trusted")
    ELSE IF mc_seq_no < trusted_id.seq_no /\ mc_seq_no > zs_right_bound
    THEN download_proof_chain(anchor.c, zs_right_bound + 1, mc_seq_no + 1, "trusted")
    ELSE IF mc_seq_no <= zs_right_bound
    THEN download_proof_chain(anchor.c, 1, mc_seq_no + 1, "zs")
    ELSE IF mc_seq_no > trusted_id.seq_no /\ mc_seq_no <= trusted_right_bound
    THEN download_proof_chain(anchor.c, trusted_id.seq_no + 1, mc_seq_no + 1, "trusted")
    ELSE Panic(Logged(anchor.c, <<"unreachable", mc_seq_no, zs_right_bound, trusted_right_bound>>))

load_key_block_proof_anchored(anchor, mc_seq_no, trusted_id, zs_right_bound, trusted_right_bound) ==
    IF anchor.status # "ok" THEN Fail(anchor)
    ELSE IF mc_seq_no > trusted_right_bound
    THEN download_proof_chain(anchor.c, trusted_right_bound + 1, mc_seq_no + 1, "trusted")
    ELSE IF mc_seq_no < trusted_id.seq_no /\ mc_seq_no > zs_right_bound
    THEN download_proof_chain(anchor.c, zs_right_bound + 1, mc_seq_no + 1, "zs")
    ELSE IF mc_seq_no <= zs_right_bound
    THEN download_proof_chain(anchor.c, 1, mc_seq_no + 1, "zs")
    ELSE IF mc_seq_no > trusted_id.seq_no /\ mc_seq_no <= trusted_right_bound
    THEN download_proof_chain(anchor.c, trusted_id.seq_no + 1, mc_seq_no + 1, "trusted")
    ELSE Panic(Logged(anchor.c, <<"unreachable", mc_seq_no, zs_right_bound, trusted_right_bound>>))

load_key_block_proof(c, mc_seq_no) ==
    LET proof_json == read_mc_proof(c.st, mc_seq_no)
        cached == from_value(proof_json.some)
        trusted_id == TrustedId
    IN IF proof_json # None
       THEN (IF cached = None THEN Err(c) ELSE Ok(c, cached.some))
       ELSE IF mc_seq_no = trusted_id.seq_no
       THEN download_trusted_key_block_proof(c, trusted_id)
       ELSE load_key_block_proof_anchored(require_trusted_key_block_proof(c, trusted_id),
                                          mc_seq_no, trusted_id, read_zs_right_bound(c.st),
                                          read_trusted_block_right_bound(c.st, trusted_id.seq_no))

\* ---------------------------------------------------------------- shard blocks
Waiting(c) == [c |-> c, status |-> "waiting", val |-> None]

extract_top_shard_block(mc_block, shard) ==
    LET shards == ShardsOf(mc_block.seq_no)
        found == SelectSeq(shards, LAMBDA e : e.workchain_id = shard.workchain_id /\ e.shard = shard.prefix)
    IN IF Len(found) = 0 THEN None
       ELSE Some(<<found[1].descr.seq_no, found[1].descr.root_hash>>)

\* a scan that takes the shard prefix alone for the shard
RECURSIVE FirstCommitting_any_workchain(_, _, _, _)
FirstCommitting_any_workchain(blocks, i, shard, shard_block_seq_no) ==
    IF i > Len(blocks) THEN 0
    ELSE LET shard_hashes == ShardHashesOf(blocks[i][2].seq_no)
         IN IF \E k \in 1..Len(shard_hashes) :
                   /\ shard_hashes[k].shard = shard.prefix
                   /\ shard_hashes[k].descr.seq_no >= shard_block_seq_no
            THEN i
            ELSE FirstCommitting_any_workchain(blocks, i + 1, shard, shard_block_seq_no)

\* the first row of `blocks` whose shard_hashes has the shard at or beyond the seq_no; 0 if none
RECURSIVE FirstCommitting(_, _, _, _)
FirstCommitting(blocks, i, shard, shard_block_seq_no) ==
    IF i > Len(blocks) THEN 0
    ELSE LET shard_hashes == ShardHashesOf(blocks[i][2].seq_no)
         IN IF \E k \in 1..Len(shard_hashes) :
                   /\ shard_hashes[k].workchain_id = shard.workchain_id
                   /\ shard_hashes[k].shard = shard.prefix
                   /\ shard_hashes[k].descr.seq_no >= shard_block_seq_no
            THEN i
            ELSE FirstCommitting(blocks, i + 1, shard, shard_block_seq_no)

RECURSIVE query_closest_mc_block_for_shard_block(_, _, _, _)

query_closest_mc_block_in(c1, blocks, first_mc_seq_no, shard, shard_block_seq_no) ==
    LET hit == FirstCommitting(blocks.result, 1, shard, shard_block_seq_no)
    IN IF ~blocks.ok THEN Panic(c1)
       ELSE IF Len(blocks.result) = 0
       THEN Ok(c1, [found |-> None, first_mc_seq_no |-> first_mc_seq_no])
       ELSE IF hit # 0
       THEN Ok(c1, [found |-> Some(blocks.result[hit][1]), first_mc_seq_no |-> first_mc_seq_no])
       ELSE query_closest_mc_block_for_shard_block(c1, Last(blocks.result)[1] + 1,
                                                   shard, shard_block_seq_no)

\* returns [found, first_mc_seq_no]: the anchor, if any, and the updated start
query_closest_mc_block_for_shard_block(c, first_mc_seq_no, shard, shard_block_seq_no) ==
    query_closest_mc_block_in(
        Logged(c, <<"query", "mc_ge", first_mc_seq_no>>),
        preprocess_query_result(QueryMc(FALSE, first_mc_seq_no..(head + 1))),
        first_mc_seq_no, shard, shard_block_seq_no)

\* what the indexer holds for the shard block of a seq_no: `served` maps the seq_no to
\* a BoC, or to None where the indexer has no such block
ShardRows(served, seq_nos) ==
    LET Present(i) == i \in seq_nos /\ served[i] # None
        RECURSIVE Upto(_)
        Upto(i) == IF i = 0 THEN <<>>
                   ELSE Upto(i - 1) \o (IF Present(i)
                                        THEN <<[seq_no |-> i, gen_utime |-> 10 * i, boc |-> served[i].some]>>
                                        ELSE <<>>)
    IN Upto(MaxShardSeq)

\* the indexer's answer to the query for the shard blocks of start..end: the blocks
\* of the range, or every block it holds when it ignores the filter
ShardAnswer(served, start, end) ==
    IF fault.kind = "shards_ahead_unfiltered"
    THEN ShardRows(served, 1..MaxShardSeq)
    ELSE ShardRows(served, {i \in 1..MaxShardSeq : start <= i /\ i < end})

\* the first position whose seq_no is not start + position - 1; 0 if none
RECURSIVE FirstUnexpected(_, _, _)
FirstUnexpected(blocks, start, i) ==
    IF i > Len(blocks) THEN 0
    ELSE IF blocks[i][1] # start + (i - 1) THEN i
    ELSE FirstUnexpected(blocks, start, i + 1)

\* a step that takes the answer as it comes, without the checks on its length
query_shard_block_bocs_found_unchecked(c1, blocks, start, range_len) ==
    IF ~blocks.ok THEN Panic(c1)
    ELSE IF FirstUnexpected(blocks.result, start, 1) # 0 THEN Err(c1)
    ELSE Ok(c1, [i \in 1..Len(blocks.result) |-> blocks.result[i][2].boc])

query_shard_block_bocs_found(c1, blocks, start, range_len) ==
    IF ~blocks.ok THEN Panic(c1)
    ELSE IF Len(blocks.result) = 0 THEN Err(c1)
    ELSE IF Len(blocks.result) # range_len THEN Err(c1)
    ELSE IF FirstUnexpected(blocks.result, start, 1) # 0 THEN Err(c1)
    ELSE Ok(c1, [i \in 1..Len(blocks.result) |-> blocks.result[i][2].boc])

query_shard_block_bocs(c, served, start, end) ==
    query_shard_block_bocs_found(
        Logged(c, <<"query", "shard_in", start, end>>),
        preprocess_query_result(FirstRows(ShardAnswer(served, start, end), PageLimit)),
        start, IF end > start THEN end - start ELSE 0)

\* a check that compares the seq_no only
check_with_last_prev_ref_seq_no_only(seq_no, root_hash, last_prev_ref_seq_no, last_prev_ref_root_hash) ==
    seq_no = last_prev_ref_seq_no

check_with_last_prev_ref(seq_no, root_hash, last_prev_ref_seq_no, last_prev_ref_root_hash) ==
    /\ seq_no = last_prev_ref_seq_no
    /\ root_hash = last_prev_ref_root_hash

\* the walk over shard_chain[1..i] in reverse; TRUE if every check passes, the one
\* against the queried block included
RECURSIVE ShardChainWalk(_, _, _, _, _)
ShardChainWalk(shard_chain, i, last_prev_ref_seq_no, last_prev_ref_root_hash, queried) ==
    IF i = 0
    THEN check_with_last_prev_ref(queried.seq_no, ShardRootHash(queried),
                                  last_prev_ref_seq_no, last_prev_ref_root_hash)
    ELSE LET block == shard_chain[i]
         IN /\ check_with_last_prev_ref(block.seq_no, ShardRootHash(block),
                                        last_prev_ref_seq_no, last_prev_ref_root_hash)
            /\ ShardChainWalk(shard_chain, i - 1, block.prev_seq_no, block.prev_root_hash, queried)

\* check_shard_block, first half: the masterchain anchor of the shard block is found,
\* proven and stored, and the top shard block it commits is returned
\* a step that stores the anchor's BoC before it compares the hashes
check_shard_block_mc_boc_store_first(mc_boc, mc_proof, mc_seq_no, boc) ==
    LET c1 == Logged(Stored(mc_boc.c, write_mc_block(mc_boc.c.st, mc_seq_no, mc_boc.val)),
                     <<"write", "block", mc_seq_no>>)
        top == extract_top_shard_block(mc_boc.val, boc.shard)
    IN IF mc_boc.status # "ok" THEN Fail(mc_boc)
       ELSE IF repr_hash(mc_boc.val) # mc_proof.id.root_hash THEN Err(c1)
       ELSE IF top = None THEN Err(c1)
       ELSE Ok(Logged(c1, <<"top", top.some[1], top.some[2]>>), top.some)

check_shard_block_mc_boc(mc_boc, mc_proof, mc_seq_no, boc) ==
    LET c1 == Logged(Stored(mc_boc.c, write_mc_block(mc_boc.c.st, mc_seq_no, mc_boc.val)),
                     <<"write", "block", mc_seq_no>>)
        top == extract_top_shard_block(mc_boc.val, boc.shard)
    IN IF mc_boc.status # "ok" THEN Fail(mc_boc)
       ELSE IF repr_hash(mc_boc.val) # mc_proof.id.root_hash THEN Err(mc_boc.c)
       ELSE IF top = None THEN Err(c1)
       ELSE Ok(Logged(c1, <<"top", top.some[1], top.some[2]>>), top.some)

\* the "anchor_proof" event marks that check_proof accepted the proof served for
\* the anchor
check_shard_block_checked(checked, mc_seq_no, boc) ==
    IF checked.status # "ok" THEN Fail(checked)
    ELSE check_shard_block_mc_boc(
             download_mc_boc(Logged(checked.c, <<"anchor_proof", mc_seq_no, checked.val.id>>),
                             mc_seq_no),
             checked.val, mc_seq_no, boc)

check_shard_block_proof(mc_proof_json, mc_seq_no, boc) ==
    LET mc_proof == from_value(mc_proof_json.val)
    IN IF mc_proof_json.status # "ok" THEN Fail(mc_proof_json)
       ELSE IF mc_proof = None THEN Err(mc_proof_json.c)
       ELSE check_shard_block_checked(check_proof(mc_proof_json.c, mc_proof.some), mc_seq_no, boc)

\* a loop that gives up when no masterchain block commits the shard block yet
check_shard_block_anchor_no_wait(closest, boc) ==
    IF closest.status # "ok" THEN Fail(closest)
    ELSE IF closest.val.found = None
    THEN Err(closest.c)
    ELSE check_shard_block_proof(query_mc_proof(closest.c, closest.val.found.some),
                                 closest.val.found.some, boc)

\* one turn of the loop: without an anchor it waits on the timer, and the next turn
\* queries from the first_mc_seq_no the last query left
check_shard_block_anchor(closest, boc) ==
    IF closest.status # "ok" THEN Fail(closest)
    ELSE IF closest.val.found = None
    THEN [Waiting(Logged(closest.c, <<"set_timer", 1000>>))
             EXCEPT !.val = Some(closest.val.first_mc_seq_no)]
    ELSE check_shard_block_proof(query_mc_proof(closest.c, closest.val.found.some),
                                 closest.val.found.some, boc)

find_top_shard_block_from(c, first_mc_seq_no, boc) ==
    check_shard_block_anchor(
        query_closest_mc_block_for_shard_block(c, first_mc_seq_no, boc.shard, boc.seq_no), boc)

find_top_shard_block(c, boc) == find_top_shard_block_from(c, boc.master_ref, boc)

\* second half: the queried block is the committed top, or the run of shard blocks
\* above it is fetched and walked down from the top
check_shard_chain(shard_chain, top_seq_no, top_root_hash, boc) ==
    IF shard_chain.status # "ok" THEN Fail(shard_chain)
    ELSE IF ShardChainWalk(shard_chain.val, Len(shard_chain.val), top_seq_no, top_root_hash, boc)
    THEN Ok(Logged(shard_chain.c, <<"shard_chain", shard_chain.val>>), TRUE)
    ELSE Err(Logged(shard_chain.c, <<"shard_chain", shard_chain.val>>))

\* a comparison with the committed top that looks at the seq_no alone
check_top_shard_block_seq_no_only(found, boc, served) ==
    IF found.status # "ok" THEN found
    ELSE IF found.val[1] = boc.seq_no
    THEN Ok(found.c, TRUE)
    ELSE check_shard_chain(query_shard_block_bocs(found.c, served, boc.seq_no + 1, found.val[1] + 1),
                           found.val[1], found.val[2], boc)

check_top_shard_block(found, boc, served) ==
    IF found.status # "ok" THEN found
    ELSE IF found.val[1] = boc.seq_no
    THEN (IF found.val[2] # ShardRootHash(boc) THEN Err(found.c) ELSE Ok(found.c, TRUE))
    ELSE check_shard_chain(query_shard_block_bocs(found.c, served, boc.seq_no + 1, found.val[1] + 1),
                           found.val[1], found.val[2], boc)

check_shard_block(c, boc, served) ==
    check_top_shard_block(find_top_shard_block(c, boc), boc, served)

\* ---------------------------------------------------------------- the engine as a state machine
EmptyStore == [x \in {} |-> 0]
Idle == [op |-> "idle", arg |-> 0, status |-> "ok", ret |-> None, log |-> <<>>, before |-> EmptyStore]
NoPq == [rows |-> <<>>, done |-> FALSE, out |-> [ok |-> TRUE, result |-> <<>>]]
NoNk == [a |-> CurrentNetworkUid, b |-> CurrentNetworkUid, key_a |-> <<>>, key_b |-> <<>>,
         done |-> FALSE, out_a |-> <<>>, out_b |-> <<>>]
NoSh == [step |-> 1]
\* the engine is shared (&self): two calls may run at once
Tasks == {1, 2}
IdleTask == [pc |-> "idle", n |-> 0, status |-> "idle", ops |-> <<>>, prev |-> None,
             alone |-> EmptyStore, cached |-> FALSE, overlap |-> FALSE]
NoTasks == [t \in Tasks |-> IdleTask]

\* chains of the model: the trusted block is a key block, at most one other block is not
Chains == {(1..MaxSeq) \ {x} : x \in (0..MaxSeq) \ {TrustedSeqNo}}

Init ==
    /\ storage = EmptyStore
    /\ keyBlocks \in Chains
    /\ head = MaxSeq
    /\ fault = [kind |-> "none", seq |-> 0]
    /\ call = Idle
    /\ pq = NoPq
    /\ nk = NoNk
    /\ sh = NoSh
    /\ tasks = NoTasks

Returned(op, arg, r) ==
    [op |-> op, arg |-> arg, status |-> r.status,
     ret |-> IF r.status = "ok" THEN Some(r.val) ELSE None,
     log |-> r.c.log, before |-> storage]

LoadKeyBlockProof(mc_seq_no) ==
    \E r \in {load_key_block_proof(Ctx(storage, <<>>), mc_seq_no)} :
       /\ storage' = r.c.st
       /\ call' = Returned("load_key_block_proof", mc_seq_no, r)
       /\ UNCHANGED <<keyBlocks, head, fault, pq, nk, sh, tasks>>

LoadZerostate ==
    \E r \in {load_zerostate(Ctx(storage, <<>>))} :
       /\ storage' = r.c.st
       /\ call' = Returned("load_zerostate", 0, r)
       /\ UNCHANGED <<keyBlocks, head, fault, pq, nk, sh, tasks>>

\* the chain grows by one masterchain block and the indexer gets it
IndexerAdvance ==
    /\ head <= MaxSeq
    /\ head' = head + 1
    /\ call' = Idle
    /\ UNCHANGED <<storage, keyBlocks, fault, pq, nk, sh, tasks>>

\* the indexer starts serving a gap, a fork candidate or a bad zerostate
IndexerFault ==
    /\ fault.kind = "none"
    /\ fault' \in Faults \ {fault}
    /\ call' = Idle
    /\ UNCHANGED <<storage, keyBlocks, head, pq, nk, sh, tasks>>

IndexerRepair ==
    /\ fault.kind # "none"
    /\ fault' = [kind |-> "none", seq |-> 0]
    /\ call' = Idle
    /\ UNCHANGED <<storage, keyBlocks, head, pq, nk, sh, tasks>>

Next ==
    \/ \E mc_seq_no \in 0..MaxSeq : LoadKeyBlockProof(mc_seq_no)
    \/ LoadZerostate
    \/ IndexerAdvance
    \/ IndexerFault
    \/ IndexerRepair

Spec == Init /\ [][Next]_vars

\* ---------------------------------------------------------------- reading a state
QueryCount(log) == Len(SelectSeq(log, LAMBDA e : e[1] = "query"))
ChainQueries(log) == Len(SelectSeq(log, LAMBDA e : e[1] = "query" /\ e[2] = "key_blocks"))
StoreKey(key) == gen_storage_key(CurrentNetworkUid, key)
HasProof(st, n) == StoreKey(<<"proof_mc_", n>>) \in DOMAIN st
ProofOf(st, n) == st[StoreKey(<<"proof_mc_", n>>)]
\* the stored proof of n is the proof of the canonical block n
ValidProof(st, n) ==
    /\ HasProof(st, n)
    /\ ProofOf(st, n).seq_no = n
    /\ ProofOf(st, n).root_hash = RootHash(n)
    /\ ProofOf(st, n).file_hash = FileHash(n)
BoundKeys == {StoreKey(<<"zs_right_boundary_seq_no">>),
              StoreKey(<<"trusted_", TrustedSeqNo, "_right_boundary_seq_no">>)}
ZsKey == StoreKey(<<"zs_right_boundary_seq_no">>)
TrustedKey == StoreKey(<<"trusted_", TrustedSeqNo, "_right_boundary_seq_no">>)
\* the stored u32 under a bound key, -1 when the key is absent
BoundValue(st, k) == IF k \in DOMAIN st THEN from_le_bytes(st[k]) ELSE -1
ZsRight(st) == IF ZsKey \in DOMAIN st THEN from_le_bytes(st[ZsKey]) ELSE 0
TrustedRight(st) == IF TrustedKey \in DOMAIN st THEN from_le_bytes(st[TrustedKey]) ELSE TrustedSeqNo
IsLoad(c) == c.op = "load_key_block_proof"
\* key blocks of the chain the indexer's range covers
KeyBlocksIn(lo, hi) == {i \in keyBlocks : lo <= i /\ i <= hi /\ i <= head}

\* ---------------------------------------------------------------- claims
\* C1: the stored zs_right_boundary_seq_no and trusted right boundary never
\* decrease (and are never removed), whatever call is made and however it ends.
C1_BoundsNeverDecrease ==
    [][\A k \in BoundKeys : k \in DOMAIN storage =>
           k \in DOMAIN storage' /\ BoundValue(storage', k) >= BoundValue(storage, k)]_vars

\* a call re-downloaded a covered range: it updated a bound with a value below the stored one
C1_Witness ==
    /\ IsLoad(call)
    /\ \E i \in 1..Len(call.log) :
          /\ call.log[i][1] = "update"
          /\ call.log[i][2] = "trusted"
          /\ TrustedKey \in DOMAIN call.before
          /\ call.log[i][3] < BoundValue(call.before, TrustedKey)
          /\ BoundValue(storage, TrustedKey) = BoundValue(call.before, TrustedKey)

\* C2: trust coverage: a stored zerostate bound R has a valid stored proof for every
\* key block in [1..R], a stored trusted bound R for every key block in [N..R].
C2_TrustCoverage ==
    /\ ZsKey \in DOMAIN storage =>
          \A i \in keyBlocks : (1 <= i /\ i <= BoundValue(storage, ZsKey)) => ValidProof(storage, i)
    /\ TrustedKey \in DOMAIN storage =>
          \A i \in keyBlocks : (TrustedSeqNo <= i /\ i <= BoundValue(storage, TrustedKey))
                                  => ValidProof(storage, i)

C2_Witness ==
    /\ ZsKey \in DOMAIN storage /\ BoundValue(storage, ZsKey) >= 1
    /\ TrustedKey \in DOMAIN storage /\ BoundValue(storage, TrustedKey) >= TrustedSeqNo + 2
    /\ Cardinality({i \in keyBlocks : HasProof(storage, i)}) >= 4

\* C3: a second load_key_block_proof(n) right after a successful first one issues
\* no indexer query and succeeds.
C3_SecondCallFromCache ==
    [][(IsLoad(call) /\ call.status = "ok" /\ IsLoad(call') /\ call'.arg = call.arg)
          => (QueryCount(call'.log) = 0 /\ call'.status = "ok")]_vars

\* C6: after a successful load_key_block_proof(n), n > T.seq_no, on an empty store,
\* every key block in (T.seq_no, n] has its valid proof stored.
C6_RangeReconstruction ==
    (IsLoad(call) /\ call.status = "ok" /\ call.arg > TrustedSeqNo /\ call.before = EmptyStore)
        => \A i \in KeyBlocksIn(TrustedSeqNo + 1, call.arg) : ValidProof(storage, i)

\* C8: with proof_mc_n stored, load_key_block_proof(n) returns it, queries nothing
\* and writes nothing.
C8_CacheHitChangesNothing ==
    [][(IsLoad(call') /\ HasProof(storage, call'.arg))
          => /\ call'.status = "ok"
             /\ call'.ret = from_value(ProofOf(storage, call'.arg))
             /\ QueryCount(call'.log) = 0
             /\ Len(call'.log) = 0
             /\ storage' = storage]_vars

C8_Witness ==
    /\ IsLoad(call) /\ call.status = "ok"
    /\ HasProof(call.before, call.arg)
    /\ call.arg > TrustedSeqNo
    /\ call.arg < TrustedRight(storage)
    /\ call.before = storage

\* the row the indexer's answer for block n is reduced to is the canonical block n
IndexerServesCanonical(n) ==
    LET rows == preprocess_query_result(QueryMc(FALSE, {n}))
    IN rows.ok /\ Len(rows.result) > 0 /\ rows.result[1][2].root_hash = RootHash(n)

\* C9: load_key_block_proof(T.seq_no) without a cached proof, the indexer serving the
\* anchor's proof: succeeds, stores proof_mc_T and nothing else, downloads no chain.
C9_AnchorRequest ==
    [][(IsLoad(call') /\ call'.arg = TrustedSeqNo /\ ~HasProof(storage, TrustedSeqNo)
            /\ IndexerServesCanonical(TrustedSeqNo))
          => /\ call'.status = "ok"
             /\ ValidProof(storage', TrustedSeqNo)
             /\ ChainQueries(call'.log) = 0
             /\ DOMAIN storage' = DOMAIN storage \cup {StoreKey(<<"proof_mc_", TrustedSeqNo>>)}
             /\ \A k \in DOMAIN storage : storage'[k] = storage[k]]_vars

C9_Witness ==
    /\ IsLoad(call) /\ call.arg = TrustedSeqNo /\ call.status = "ok"
    /\ ~HasProof(call.before, TrustedSeqNo)
    /\ HasProof(storage, TrustedSeqNo)
    /\ TrustedKey \notin DOMAIN storage

\* C10: after a successful load_key_block_proof(n) with n above the trusted right
\* boundary, the stored trusted boundary is n, the key blocks of (old boundary, n]
\* have their proofs stored and the zerostate boundary is unchanged.
C10_ExtendRight ==
    (IsLoad(call) /\ call.status = "ok" /\ call.arg > TrustedRight(call.before))
        => /\ BoundValue(storage, TrustedKey) = call.arg
           /\ \A i \in KeyBlocksIn(TrustedRight(call.before) + 1, call.arg) : HasProof(storage, i)
           /\ BoundValue(storage, ZsKey) = BoundValue(call.before, ZsKey)

\* C11: after a successful load_key_block_proof(n) with n strictly between the
\* zerostate right boundary and the trusted key block, the stored zerostate
\* boundary is n, the key blocks of (old boundary, n] have their proofs stored and
\* the trusted boundary is unchanged.
C11_ExtendLeft ==
    (IsLoad(call) /\ call.status = "ok"
       /\ ZsRight(call.before) < call.arg /\ call.arg < TrustedSeqNo)
        => /\ BoundValue(storage, ZsKey) = call.arg
           /\ \A i \in KeyBlocksIn(ZsRight(call.before) + 1, call.arg) : HasProof(storage, i)
           /\ BoundValue(storage, TrustedKey) = BoundValue(call.before, TrustedKey)

HasEvent(log, e) == \E i \in 1..Len(log) : log[i] = e
ZerostateKey == StoreKey(ZEROSTATE_KEY)

\* C12: when the zerostate is not cached and the indexer serves a BoC whose hash
\* is not the network's zerostate_root_hash, load_zerostate fails and writes
\* nothing (also when it runs inside another call); a stored zerostate entry
\* always holds a BoC with the network's hash.
C12_ZerostateHashCheck ==
    /\ ZerostateKey \in DOMAIN storage
          => get_boc_hash(storage[ZerostateKey]) = CurrentNetworkUid.zerostate_root_hash
    /\ (call.op = "load_zerostate" /\ ZerostateKey \notin DOMAIN call.before
          /\ fault.kind = "zs_bad")
          => call.status = "err" /\ storage = call.before
    /\ (HasEvent(call.log, <<"query", "zerostates">>) /\ fault.kind = "zs_bad")
          => /\ call.status = "err"
             /\ ~HasEvent(call.log, <<"write", "zerostate">>)
             /\ ZerostateKey \notin DOMAIN storage

\* load_zerostate, nothing cached, was served a BoC with another hash
C12_Witness ==
    /\ call.op = "load_zerostate" /\ fault.kind = "zs_bad"
    /\ ZerostateKey \notin DOMAIN call.before
    /\ HasEvent(call.log, <<"query", "zerostates">>)
    /\ call.status = "err"

\* what the indexer answers to the query for the trusted key block
ServedAnchor == preprocess_query_result(QueryMc(FALSE, {TrustedSeqNo}))
AnchorSeqNoMismatch ==
    /\ ServedAnchor.ok /\ Len(ServedAnchor.result) > 0
    /\ ServedAnchor.result[1][2].seq_no # TrustedId.seq_no
AnchorRootHashMismatch ==
    /\ ServedAnchor.ok /\ Len(ServedAnchor.result) > 0
    /\ ServedAnchor.result[1][2].root_hash # TrustedId.root_hash

\* C13: when the trusted key block's proof is not cached and the indexer serves
\* for it a proof with another seq_no or another root_hash, a
\* load_key_block_proof(n) of an uncached n fails, writes nothing and queries no
\* key-block range.
C13_AnchorCheck ==
    (IsLoad(call) /\ ~HasProof(call.before, TrustedSeqNo) /\ ~HasProof(call.before, call.arg)
       /\ (AnchorSeqNoMismatch \/ AnchorRootHashMismatch))
        => /\ call.status = "err"
           /\ storage = call.before
           /\ ChainQueries(call.log) = 0

\* an uncached n other than the anchor, with the anchor served under another seq_no
C13_Witness ==
    /\ IsLoad(call) /\ call.arg # TrustedSeqNo
    /\ ~HasProof(call.before, TrustedSeqNo) /\ ~HasProof(call.before, call.arg)
    /\ AnchorSeqNoMismatch
    /\ HasEvent(call.log, <<"query", "mc_block", TrustedSeqNo>>)
    /\ call.status = "err"

\* the same with the anchor served with another root_hash
C13_WitnessRootHash ==
    /\ IsLoad(call) /\ call.arg # TrustedSeqNo
    /\ ~HasProof(call.before, TrustedSeqNo) /\ ~HasProof(call.before, call.arg)
    /\ AnchorRootHashMismatch /\ ~AnchorSeqNoMismatch
    /\ HasEvent(call.log, <<"query", "mc_block", TrustedSeqNo>>)
    /\ call.status = "err"

\* the events of a log, call by call: `open` holds, for every download_proof_chain
\* call that has not returned yet, the last seq_no it checked and the last it wrote
RECURSIVE ChainsAscendingFrom(_, _, _)
ChainsAscendingFrom(log, i, open) ==
    IF i > Len(log) THEN TRUE
    ELSE LET e == log[i]
             top == open[Len(open)]
             outer == SubSeq(open, 1, Len(open) - 1)
         IN CASE e[1] = "download_proof_chain" ->
                    ChainsAscendingFrom(log, i + 1, Append(open, [check |-> 0, write |-> 0]))
              [] e[1] = "download_proof_chain_end" ->
                    ChainsAscendingFrom(log, i + 1, outer)
              [] e[1] = "check_proof" /\ open # <<>> ->
                    /\ top.check < e[2]
                    /\ ChainsAscendingFrom(log, i + 1, Append(outer, [top EXCEPT !.check = e[2]]))
              [] e[1] = "write" /\ e[2] = "proof" /\ open # <<>> ->
                    /\ top.write < e[3]
                    /\ ChainsAscendingFrom(log, i + 1, Append(outer, [top EXCEPT !.write = e[3]]))
              [] OTHER -> ChainsAscendingFrom(log, i + 1, open)

ProofWrites(log) == SelectSeq(log, LAMBDA e : e[1] = "write" /\ e[2] = "proof")

\* C14: within one download_proof_chain call the check_proof invocations and the
\* proof_mc_k writes happen in strictly increasing k, also when the range took
\* several indexer pages.
C14_AscendingWithinChain ==
    IsLoad(call) => ChainsAscendingFrom(call.log, 1, <<>>)

\* one download_proof_chain that took more than one page and stored more proofs
\* than a page holds
C14_Witness ==
    /\ IsLoad(call) /\ call.status = "ok"
    /\ Len(SelectSeq(call.log, LAMBDA e : e[1] = "download_proof_chain")) = 1
    /\ ChainQueries(call.log) > 1
    /\ \E i \in 1..Len(call.log) :
          /\ call.log[i][1] = "download_proof_chain"
          /\ Len(ProofWrites(SubSeq(call.log, i, Len(call.log)))) > PageLimit

\* C19: add_file_hashes ends when the indexer answers with fewer next blocks than
\* asked for, none included (the tail proofs stay without file_hash), so that
\* download_proof_chain, and with it load_key_block_proof, returns instead of
\* querying for ever.
C19_AddFileHashesReturns ==
    IsLoad(call) => call.status # "hang"

\* the download_proof_chain calls a call makes itself, not those made inside
\* check_proof while an outer download_proof_chain runs
RECURSIVE OwnChains(_, _, _)
OwnChains(log, i, depth) ==
    IF i > Len(log) THEN <<>>
    ELSE IF log[i][1] = "download_proof_chain"
    THEN (IF depth = 0 THEN <<log[i]>> ELSE <<>>) \o OwnChains(log, i + 1, depth + 1)
    ELSE IF log[i][1] = "download_proof_chain_end"
    THEN OwnChains(log, i + 1, depth - 1)
    ELSE OwnChains(log, i + 1, depth)

\* the range [start, end) and the side load_key_block_proof(n) is to download
SelectedSegment(n, zs_right, trusted_right) ==
    IF n > trusted_right THEN <<trusted_right + 1, n + 1, "trusted">>
    ELSE IF zs_right < n /\ n < TrustedSeqNo THEN <<zs_right + 1, n + 1, "zs">>
    ELSE IF n <= zs_right THEN <<1, n + 1, "zs">>
    ELSE <<TrustedSeqNo + 1, n + 1, "trusted">>

\* a cache miss for n other than the trusted key block, with the trusted key
\* block's proof at hand
SegmentCase ==
    /\ IsLoad(call) /\ call.arg # TrustedSeqNo
    /\ ~HasProof(call.before, call.arg)
    /\ HasProof(storage, TrustedSeqNo)

\* C20: on a cache miss for n other than the trusted key block,
\* load_key_block_proof(n) downloads (T_right, n] on the trusted side when
\* n > T_right, (Z_right, n] on the zerostate side when Z_right < n < T, [1, n] on
\* the zerostate side when n <= Z_right and (T, n] on the trusted side when
\* T < n <= T_right; it makes exactly one download and writes only that side's bound.
C20_SegmentSelection ==
    SegmentCase =>
        LET seg == SelectedSegment(call.arg, ZsRight(call.before), TrustedRight(call.before))
            other == IF seg[3] = "zs" THEN TrustedKey ELSE ZsKey
        IN /\ OwnChains(call.log, 1, 0) = <<<<"download_proof_chain", seg[1], seg[2], seg[3]>>>>
           /\ \A i \in 1..Len(call.log) : call.log[i][1] = "update" => call.log[i][2] = seg[3]
           /\ BoundValue(storage, other) = BoundValue(call.before, other)

\* n past the trusted key block and within the trusted boundary, not cached
C20_Witness ==
    /\ SegmentCase
    /\ TrustedSeqNo < call.arg /\ call.arg <= TrustedRight(call.before)
    /\ HasEvent(call.log, <<"download_proof_chain", TrustedSeqNo + 1, call.arg + 1, "trusted">>)

\* the other three cases, the first two with proofs stored and the bound moved
C20_WitnessRight ==
    /\ SegmentCase /\ call.status = "ok"
    /\ call.arg > TrustedRight(call.before) /\ TrustedRight(call.before) > TrustedSeqNo
    /\ BoundValue(storage, TrustedKey) > BoundValue(call.before, TrustedKey)
C20_WitnessLeft ==
    /\ SegmentCase /\ call.status = "ok"
    /\ ZsRight(call.before) < call.arg /\ call.arg < TrustedSeqNo /\ ZsRight(call.before) > 0
    /\ BoundValue(storage, ZsKey) > BoundValue(call.before, ZsKey)
C20_WitnessBelowZs ==
    /\ SegmentCase
    /\ 0 < call.arg /\ call.arg <= ZsRight(call.before)
    /\ HasEvent(call.log, <<"download_proof_chain", 1, call.arg + 1, "zs">>)

\* the seq_no a write of a proof or a move of a bound is about
IsChainWrite(e) == Len(e) = 3 /\ e[1] \in {"write", "update"}
\* position of the first event of a kind; 0 if there is none
RECURSIVE FirstEvent(_, _, _)
FirstEvent(log, kind, i) ==
    IF i > Len(log) THEN 0
    ELSE IF log[i][1] = kind THEN i
    ELSE FirstEvent(log, kind, i + 1)

\* C22: every stored proof is the verified proof of its block; a proof_mc_k written
\* by download_proof_chain comes after check_proof(k); when the proof of key block k
\* does not parse or check_proof refuses it the call returns an error,
\* download_proof_chain has written no proof and no bound for any j >= k, nothing
\* is written afterwards, and what was written for the key blocks before k stays
\* stored.
C22_OnlyVerifiedPersisted ==
    /\ \A k \in 1..(MaxSeq + 1) : HasProof(storage, k) => ValidProof(storage, k)
    /\ IsLoad(call) =>
          LET u == FirstEvent(call.log, "rejected", 1)
              d == FirstEvent(call.log, "download_proof_chain", 1)
          IN /\ \A v \in 1..Len(call.log) :
                   (d # 0 /\ v > d /\ call.log[v][1] = "write" /\ call.log[v][2] = "proof")
                      => /\ \E j \in d..(v - 1) : call.log[j] = <<"check_proof", call.log[v][3]>>
                         /\ ~HasEvent(call.log, <<"rejected", call.log[v][3]>>)
             /\ u # 0 =>
                   /\ call.status = "err"
                   /\ d # 0 /\ d < u
                   /\ \A v \in d..Len(call.log) :
                         IsChainWrite(call.log[v]) =>
                            /\ v < u
                            /\ call.log[v][3] < call.log[u][2]
                            /\ call.log[v][1] = "write" => ValidProof(storage, call.log[v][3])
                            /\ call.log[v][1] = "update" =>
                                   BoundValue(storage, IF call.log[v][2] = "zs" THEN ZsKey ELSE TrustedKey)
                                       >= call.log[v][3]
                   /\ \A key \in DOMAIN call.before :
                         key \in DOMAIN storage /\ (key \notin BoundKeys => storage[key] = call.before[key])

\* the call stored the proof of a key block and moved the bound to it, and then
\* check_proof refused the proof served for the next key block
C22_Witness ==
    /\ IsLoad(call) /\ call.status = "err"
    /\ fault.kind = "forged"
    /\ \E u \in 3..Len(call.log) :
          /\ call.log[u] = <<"rejected", fault.seq>>
          /\ call.log[u - 1] = <<"check_proof", fault.seq>>
          /\ call.log[u - 2] = <<"update", "trusted", fault.seq - 1>>
    /\ ~HasProof(call.before, fault.seq - 1)
    /\ HasProof(storage, fault.seq - 1)
    /\ BoundValue(storage, TrustedKey) = fault.seq - 1
    /\ ~HasProof(storage, fault.seq)

\* check_proof refused the newer of two blocks served for one seq_no
C22_WitnessFork ==
    /\ IsLoad(call) /\ call.status = "err"
    /\ fault.kind = "fork_newer_after"
    /\ \E u \in 2..Len(call.log) :
          /\ call.log[u] = <<"rejected", fault.seq>>
          /\ call.log[u - 1] = <<"check_proof", fault.seq>>
    /\ ~HasProof(storage, fault.seq)

\* the same with a proof that does not parse
C22_WitnessParse ==
    /\ IsLoad(call) /\ call.status = "err"
    /\ fault.kind = "unparsable"
    /\ \E u \in 1..Len(call.log) :
          /\ call.log[u] = <<"rejected", fault.seq>>
          /\ u > 1
          /\ call.log[u - 1] = <<"update", "trusted", fault.seq - 1>>
    /\ HasProof(storage, fault.seq - 1) /\ ~HasProof(call.before, fault.seq - 1)
    /\ BoundValue(storage, TrustedKey) = fault.seq - 1
    /\ ~HasProof(storage, fault.seq)

\* the block the indexer holds for a seq_no, reduced as every answer is
IndexerBlock(seq_no) ==
    preprocess_query_result(SelectSeq(McRows, LAMBDA r : r.seq_no = seq_no)).result[1][2]

\* the answer of a "next_blocks" event has more blocks than there are proofs, or a
\* block at a position whose seq_no is not that of the proof at the position plus one
MoreThanAsked(e) == Len(e[3]) > Len(e[2])
OutOfPlace(e) == \E i \in 1..Min(Len(e[2]), Len(e[3])) : e[3][i] # e[2][i] + 1

\* position of the last download_proof_chain event before position u
RECURSIVE ChainStartBefore(_, _)
ChainStartBefore(log, u) ==
    IF u = 0 THEN 0
    ELSE IF log[u][1] = "download_proof_chain" THEN u
    ELSE ChainStartBefore(log, u - 1)

\* C23: add_file_hashes gives the proof at position i the prev_ref.file_hash of the
\* answer's block at position i, which is the block with the proof's seq_no + 1;
\* when the answer has more blocks than there are proofs, or a block out of place,
\* add_file_hashes fails, and the download_proof_chain that called it stores nothing.
C23_FileHashAttachment ==
    IsLoad(call) =>
        \A u \in 1..Len(call.log) :
           call.log[u][1] = "next_blocks" =>
              IF MoreThanAsked(call.log[u]) \/ OutOfPlace(call.log[u])
              THEN /\ call.status = "err"
                   /\ \A v \in ChainStartBefore(call.log, u)..Len(call.log) :
                         ~IsChainWrite(call.log[v])
              ELSE \A i \in 1..Len(call.log[u][3]) :
                      /\ call.log[u][4][i] = IndexerBlock(call.log[u][2][i] + 1).prev_file_hash
                      /\ \A v \in 1..Len(call.log) :
                            call.log[v] = <<"write", "proof", call.log[u][2][i]>>
                               => ProofOf(storage, call.log[u][2][i]).file_hash = call.log[u][4][i]

\* an answer with a block out of place, after proofs were queried for a range
C23_Witness ==
    /\ IsLoad(call) /\ call.status = "err"
    /\ \E u \in 1..Len(call.log) :
          /\ call.log[u][1] = "next_blocks"
          /\ OutOfPlace(call.log[u]) /\ ~MoreThanAsked(call.log[u])
    /\ storage = call.before

\* an answer with more blocks than proofs
C23_WitnessMore ==
    /\ IsLoad(call) /\ call.status = "err"
    /\ \E u \in 1..Len(call.log) :
          call.log[u][1] = "next_blocks" /\ MoreThanAsked(call.log[u])

\* file hashes attached over two answers, and the proofs stored with them
C23_WitnessAttached ==
    /\ IsLoad(call) /\ call.status = "ok"
    /\ Len(SelectSeq(call.log, LAMBDA e : e[1] = "next_blocks")) >= 2
    /\ \E u \in 1..Len(call.log) :
          /\ call.log[u][1] = "next_blocks"
          /\ Len(call.log[u][2]) > PageLimit
          /\ Len(call.log[u][3]) = PageLimit
    /\ Len(ProofWrites(call.log)) > PageLimit

\* C24: a download_proof_chain with an empty range fails at once, without a query
\* and without a write; one whose range holds no key block on the indexer fails
\* without writing a proof or a bound; load_key_block_proof returns the error.
C24_EmptyRangeOrChain ==
    IsLoad(call) =>
        \A u \in 1..Len(call.log) :
           call.log[u][1] = "download_proof_chain" =>
              /\ call.log[u][2] >= call.log[u][3] =>
                    /\ call.status = "err"
                    /\ call.log[u + 1] = <<"download_proof_chain_end">>
                    /\ \A v \in u..Len(call.log) :
                          call.log[v][1] # "query" /\ ~IsChainWrite(call.log[v])
              /\ QueryMc(TRUE, call.log[u][2]..(call.log[u][3] - 1)) = <<>> =>
                    /\ call.status = "err"
                    /\ \A v \in u..Len(call.log) : ~IsChainWrite(call.log[v])

\* load_key_block_proof(0) with the trusted proof stored: the range 1..1 is empty
C24_Witness ==
    /\ IsLoad(call) /\ call.arg = 0 /\ call.status = "err"
    /\ HasProof(call.before, TrustedSeqNo)
    /\ call.log = <<<<"download_proof_chain", 1, 1, "zs">>, <<"download_proof_chain_end">>>>
    /\ storage = call.before

\* a range past the trusted boundary in which the indexer has no key block
C24_WitnessNoKeyBlock ==
    /\ IsLoad(call) /\ call.status = "err"
    /\ call.arg > TrustedRight(call.before) /\ TrustedRight(call.before) > TrustedSeqNo
    /\ QueryMc(TRUE, (TrustedRight(call.before) + 1)..call.arg) = <<>>
    /\ HasEvent(call.log, <<"query", "key_blocks", TrustedRight(call.before) + 1, call.arg + 1>>)
    /\ storage = call.before

\* C28: a successful load_key_block_proof(n) returns the proof of masterchain
\* block n (the returned proof's id.seq_no is n) and proof_mc_n is stored
\* afterwards, also when the proof came out of download_proof_chain.
C28_ReturnsRequestedProof ==
    (IsLoad(call) /\ call.status = "ok")
        => /\ call.ret # None
           /\ call.ret.some.id.seq_no = call.arg
           /\ HasProof(storage, call.arg)

\* C30: the bounds stay on their own side of the trusted key block: the zerostate
\* right boundary (0 when absent) is below T.seq_no, the trusted right boundary
\* (T.seq_no when absent) is not below it, and a stored trusted boundary is above it.
C30_BoundsOnOwnSide ==
    /\ ZsRight(storage) < TrustedSeqNo
    /\ TrustedSeqNo <= TrustedRight(storage)
    /\ TrustedKey \in DOMAIN storage => BoundValue(storage, TrustedKey) > TrustedSeqNo

\* both bounds are stored, each next to the trusted key block
C30_Witness ==
    /\ IsLoad(call)
    /\ ZsKey \in DOMAIN storage /\ BoundValue(storage, ZsKey) = TrustedSeqNo - 1
    /\ TrustedKey \in DOMAIN storage /\ BoundValue(storage, TrustedKey) = TrustedSeqNo + 1

\* ---------------------------------------------------------------- preprocess_query_result alone
MaxRows == 3         \* rows of one indexer answer
MaxRowSeq == 2       \* their seq_no is 0..MaxRowSeq
MaxUtime == 2        \* their gen_utime is 0..MaxUtime

QueryRows == [seq_no : 0..MaxRowSeq, gen_utime : 0..MaxUtime]
\* answers as the sort clause delivers them: ascending seq_no
SortedAnswers ==
    UNION {{rows \in [1..n -> QueryRows] :
               \A i \in 1..n : \A j \in 1..n : i < j => rows[i].seq_no <= rows[j].seq_no}
           : n \in 0..MaxRows}

InitPre ==
    /\ pq \in {[rows |-> rows, done |-> FALSE, out |-> [ok |-> TRUE, result |-> <<>>]]
                  : rows \in SortedAnswers}
    /\ storage = EmptyStore
    /\ keyBlocks = {TrustedSeqNo}
    /\ head = 0
    /\ fault = [kind |-> "none", seq |-> 0]
    /\ call = Idle
    /\ nk = NoNk
    /\ sh = NoSh
    /\ tasks = NoTasks

Preprocess ==
    /\ ~pq.done
    /\ pq' = [pq EXCEPT !.done = TRUE, !.out = preprocess_query_result(pq.rows)]
    /\ UNCHANGED <<storage, keyBlocks, head, fault, call, nk, sh, tasks>>

NextPre == Preprocess

SpecPre == InitPre /\ [][NextPre]_vars

\* the distinct seq_nos of rows[1..n], in the order of their first row
RECURSIVE DistinctSeqNos(_, _)
DistinctSeqNos(rows, n) ==
    IF n = 0 THEN <<>>
    ELSE LET before == DistinctSeqNos(rows, n - 1)
         IN IF \E i \in 1..(n - 1) : rows[i].seq_no = rows[n].seq_no THEN before
            ELSE Append(before, rows[n].seq_no)

\* C5: one (seq_no, row) pair per seq_no of the input, in input order, each carrying
\* a row of that seq_no with the largest gen_utime.
C5_ForkDedup ==
    pq.done =>
        /\ pq.out.ok
        /\ [i \in 1..Len(pq.out.result) |-> pq.out.result[i][1]] = DistinctSeqNos(pq.rows, Len(pq.rows))
        /\ \A i \in 1..Len(pq.out.result) :
              /\ pq.out.result[i][2].seq_no = pq.out.result[i][1]
              /\ \E j \in 1..Len(pq.rows) : pq.rows[j] = pq.out.result[i][2]
              /\ \A j \in 1..Len(pq.rows) :
                    pq.rows[j].seq_no = pq.out.result[i][1]
                        => pq.rows[j].gen_utime <= pq.out.result[i][2].gen_utime

\* C29: for an answer whose first row has seq_no 0, preprocess_query_result
\* returns normally (it never indexes the empty result) and emits seq_no 0 once.
C29_SeqNoZero ==
    (pq.done /\ Len(pq.rows) > 0 /\ pq.rows[1].seq_no = 0)
        => /\ pq.out.ok
           /\ Len(SelectSeq(pq.out.result, LAMBDA pair : pair[1] = 0)) = 1

\* ---------------------------------------------------------------- gen_storage_key alone
MaxHashLen == 9      \* length of the longest root hash string

\* root hash strings: all "a", or one "b" at the first or at the last position
RootHashStrings ==
    {[i \in 1..n |-> IF i = k THEN "b" ELSE "a"] :
        n \in (MaxHashLen - 2)..MaxHashLen, k \in {0, 1, MaxHashLen}}
NetworkUids == [zerostate_root_hash : RootHashStrings, first_master_block_root_hash : RootHashStrings]
LogicalKeys == {ZEROSTATE_KEY, mc_proof_key(1)}

InitKey ==
    /\ nk \in {[a |-> a, b |-> b, key_a |-> ka, key_b |-> kb, done |-> FALSE,
                out_a |-> <<>>, out_b |-> <<>>]
                  : a \in NetworkUids, b \in NetworkUids, ka \in LogicalKeys, kb \in LogicalKeys}
    /\ storage = EmptyStore
    /\ keyBlocks = {TrustedSeqNo}
    /\ head = 0
    /\ fault = [kind |-> "none", seq |-> 0]
    /\ call = Idle
    /\ pq = NoPq
    /\ sh = NoSh
    /\ tasks = NoTasks

GenStorageKeys ==
    /\ ~nk.done
    /\ nk' = [nk EXCEPT !.done = TRUE,
                        !.out_a = gen_storage_key(nk.a, nk.key_a),
                        !.out_b = gen_storage_key(nk.b, nk.key_b)]
    /\ UNCHANGED <<storage, keyBlocks, head, fault, call, pq, sh, tasks>>

NextKey == GenStorageKeys

SpecKey == InitKey /\ [][NextKey]_vars

FirstChars(str, n) == [i \in 1..(IF Len(str) < n THEN Len(str) ELSE n) |-> str[i]]
SamePrefixes(a, b) ==
    /\ FirstChars(a.zerostate_root_hash, 8) = FirstChars(b.zerostate_root_hash, 8)
    /\ FirstChars(a.first_master_block_root_hash, 8) = FirstChars(b.first_master_block_root_hash, 8)

\* C4 as stated: two distinct network uids never get the same storage key.
C4_DistinctUidsDistinctKeys ==
    (nk.done /\ nk.a # nk.b) => nk.out_a # nk.out_b

\* C4 amended: two network uids that differ in the first 8 characters of either root
\* hash never get the same storage key, whatever the logical keys.
C4_DistinctPrefixesDistinctKeys ==
    (nk.done /\ ~SamePrefixes(nk.a, nk.b)) => nk.out_a # nk.out_b

C4_Witness ==
    /\ nk.done
    /\ nk.key_a = nk.key_b
    /\ nk.a.zerostate_root_hash = nk.b.zerostate_root_hash
    /\ Len(nk.a.first_master_block_root_hash) = Len(nk.b.first_master_block_root_hash)
    /\ ~SamePrefixes(nk.a, nk.b)
    /\ nk.out_a # nk.out_b

\* ---------------------------------------------------------------- check_shard_block
\* BoCs of the model: the shard block of a seq_no, or that block with one thing changed
Tampers == {"real", "salt", "prev_hash", "prev_seq_no", "seq_no"}
ShardBoc(i, t) ==
    LET real == RealShardBlock(i)
    IN CASE t = "salt" -> [real EXCEPT !.salt = 1]
         [] t = "prev_hash" -> [real EXCEPT !.prev_root_hash =
                                   ShardRootHash([RealShardBlock(i - 1) EXCEPT !.salt = 1])]
         [] t = "prev_seq_no" -> [real EXCEPT !.prev_seq_no = i]
         [] t = "seq_no" -> [real EXCEPT !.seq_no = i + 1]
         [] OTHER -> real

\* what the indexer serves for the shard, per seq_no a BoC or nothing: the chain, the
\* chain with one block changed or missing, or the chain with a block replaced and its
\* successor linked to the replacement
RealServed == [i \in 1..MaxShardSeq |-> Some(ShardBoc(i, "real"))]
OneChanged(i, t) ==
    [RealServed EXCEPT ![i] = IF t = "missing" THEN None ELSE Some(ShardBoc(i, t))]
Forked(i) ==
    [RealServed EXCEPT ![i] = Some(ShardBoc(i, "salt")), ![i + 1] = Some(ShardBoc(i + 1, "prev_hash"))]
ServedShardChains ==
    {OneChanged(i, t) : i \in 1..MaxShardSeq, t \in Tampers \cup {"missing"}}
        \cup {Forked(i) : i \in 1..(MaxShardSeq - 1)}

QueriedShardBlocks == {ShardBoc(i, t) : i \in 1..MaxShardSeq, t \in {"real", "salt", "seq_no"}}

InitShard ==
    /\ sh \in {[step |-> k] : k \in 1..MaxShardSeq}
    /\ tasks = NoTasks
    /\ storage = EmptyStore
    /\ keyBlocks = 1..MaxSeq
    /\ head = 0
    /\ fault = [kind |-> "none", seq |-> 0]
    /\ call = Idle
    /\ pq = NoPq
    /\ nk = NoNk

\* one call of check_shard_block; what the indexer serves for the shard is an input
CheckShardBlock(boc) ==
    \E found \in {find_top_shard_block(Ctx(storage, <<>>), boc)} :
       \E served \in ServedShardChains :
          \E r \in {check_top_shard_block(found, boc, served)} :
             /\ storage' = r.c.st
             /\ call' = Returned("check_shard_block", boc, r)
             /\ UNCHANGED <<keyBlocks, head, fault, pq, nk, sh, tasks>>

NextShard ==
    \/ \E boc \in QueriedShardBlocks : CheckShardBlock(boc)
    \/ IndexerAdvance

SpecShard == InitShard /\ [][NextShard]_vars

IsShardCheck(c) == c.op = "check_shard_block"
LogEvents(c, tag) == SelectSeq(c.log, LAMBDA e : e[1] = tag)
\* the call fetched the run of shard blocks above the queried one
FetchedRun(c) == IsShardCheck(c) /\ Len(LogEvents(c, "shard_chain")) = 1
RunOf(c) == LogEvents(c, "shard_chain")[1][2]
TopSeqNoOf(c) == LogEvents(c, "top")[1][2]
TopRootHashOf(c) == LogEvents(c, "top")[1][3]

\* run[k] is the block fetched for seq_no n_s + k: every block is the one its
\* successor's prev reference names, from the committed top down to the queried block
RunLinks(run, queried, top_seq_no, top_root_hash) ==
    LET n_s == queried.seq_no
        B(i) == IF i = n_s THEN queried ELSE run[i - n_s]
    IN /\ Len(run) = top_seq_no - n_s
       /\ ShardRootHash(B(top_seq_no)) = top_root_hash
       /\ \A i \in (n_s + 1)..top_seq_no :
             /\ B(i).prev_seq_no = i - 1
             /\ B(i).prev_root_hash = ShardRootHash(B(i - 1))

\* C7: with the anchor committing a top shard block above the queried one,
\* check_shard_block succeeds exactly when the fetched run links the committed top to
\* the queried block by prev references; a run with a changed block fails.
C7_ShardChainSoundness ==
    (FetchedRun(call) /\ TopSeqNoOf(call) > call.arg.seq_no)
        => /\ (call.status = "ok")
                 <=> RunLinks(RunOf(call), call.arg, TopSeqNoOf(call), TopRootHashOf(call))
           /\ (call.status = "ok")
                 => /\ call.arg = RealShardBlock(call.arg.seq_no)
                    /\ \A k \in 1..Len(RunOf(call)) :
                          RunOf(call)[k] = RealShardBlock(call.arg.seq_no + k)
           /\ call.status \in {"ok", "err"}

C7_Witness ==
    /\ FetchedRun(call)
    /\ call.status = "ok"
    /\ Len(RunOf(call)) >= 2

\* a fetched run whose first block does not name the queried block is rejected
C7_WitnessRejected ==
    /\ FetchedRun(call)
    /\ call.status = "err"
    /\ RunOf(call)[1].prev_root_hash # ShardRootHash(call.arg)

\* the anchor was verified and commits a top shard block with the queried seq_no
DirectlyCommitted(c) ==
    /\ IsShardCheck(c) /\ Len(LogEvents(c, "top")) = 1
    /\ TopSeqNoOf(c) = c.arg.seq_no

\* C26: when the top shard block of the verified anchor has the seq_no of the
\* queried block, check_shard_block succeeds exactly when the top's root hash is
\* the queried block's root hash, fails otherwise, and queries no shard block.
C26_DirectCommitment ==
    DirectlyCommitted(call) =>
        /\ call.status \in {"ok", "err"}
        /\ (call.status = "ok") <=> (TopRootHashOf(call) = ShardRootHash(call.arg))
        /\ \A i \in 1..Len(call.log) : ~(call.log[i][1] = "query" /\ call.log[i][2] = "shard_in")
        /\ Len(LogEvents(call, "shard_chain")) = 0

\* the queried block is the committed top
C26_Witness ==
    /\ DirectlyCommitted(call) /\ call.status = "ok"
    /\ call.arg = RealShardBlock(call.arg.seq_no)
    /\ call.arg.seq_no > 1

\* a block with the committed seq_no and another content is refused
C26_WitnessRefused ==
    /\ DirectlyCommitted(call) /\ call.status = "err"
    /\ call.arg # RealShardBlock(call.arg.seq_no)
    /\ TopRootHashOf(call) = ShardRootHash(RealShardBlock(call.arg.seq_no))

\* ---------------------------------------------------------------- calls dropped at an await
IsWriteEvent(e) == e[1] \in {"write", "update"}

\* the position in the log of the j-th write, 0 for j = 0
RECURSIVE WriteIndex(_, _, _)
WriteIndex(log, j, i) ==
    IF j = 0 THEN i - 1
    ELSE IF IsWriteEvent(log[i]) THEN WriteIndex(log, j - 1, i + 1)
    ELSE WriteIndex(log, j, i + 1)

\* the future of load_key_block_proof is dropped (cancellation, timeout, crash)
\* while it waits at an await: the store keeps the writes made until then
LoadKeyBlockProofCancelled(mc_seq_no) ==
    \E r \in {load_key_block_proof(Ctx(storage, <<>>), mc_seq_no)} :
       \E j \in 0..(Len(r.c.hist) - 1) :
          /\ storage' = r.c.hist[j + 1]
          /\ call' = [op |-> "load_key_block_proof", arg |-> mc_seq_no,
                      status |-> "cancelled", ret |-> None,
                      log |-> SubSeq(r.c.log, 1, WriteIndex(r.c.log, j, 1)),
                      before |-> storage]
          /\ UNCHANGED <<keyBlocks, head, fault, pq, nk, sh, tasks>>

NextCrash ==
    \/ \E mc_seq_no \in 0..MaxSeq : LoadKeyBlockProof(mc_seq_no)
    \/ \E mc_seq_no \in 0..MaxSeq : LoadKeyBlockProofCancelled(mc_seq_no)
    \/ LoadZerostate
    \/ IndexerAdvance

SpecCrash == Init /\ [][NextCrash]_vars

\* C15: for every key block k a call processes, check_proof(k) is made before
\* proof_mc_k is written and proof_mc_k is written before the bound moves to k; a
\* call dropped between any two of its writes leaves a store with trust coverage.
C15_WriteOrder ==
    /\ IsLoad(call) =>
          \A u \in 1..Len(call.log) :
             /\ call.log[u][1] = "update" =>
                   /\ u > 1
                   /\ call.log[u - 1] = <<"write", "proof", call.log[u][3]>>
             /\ (call.log[u][1] = "write" /\ call.log[u][2] = "proof"
                   /\ call.log[u][3] # TrustedSeqNo) =>
                   \E j \in 1..(u - 1) : call.log[j] = <<"check_proof", call.log[u][3]>>
    /\ C2_TrustCoverage

\* a call dropped after it stored the proof of a key block and before it moved
\* the bound to it
C15_Witness ==
    /\ IsLoad(call) /\ call.status = "cancelled" /\ call.log # <<>>
    /\ Last(call.log)[1] = "write" /\ Last(call.log)[2] = "proof"
    /\ Last(call.log)[3] > TrustedSeqNo
    /\ HasProof(storage, Last(call.log)[3])
    /\ BoundValue(storage, TrustedKey) < Last(call.log)[3]
    /\ BoundValue(storage, TrustedKey) > TrustedSeqNo

\* ---------------------------------------------------------------- concurrent calls
\* the storage writes of a call in the order it awaits them: a put of a proof or
\* of the zerostate, or a bound update (which is a read and then a write)
WriteOps(r) ==
    [j \in 1..(Len(r.c.hist) - 1) |->
        LET e == r.c.log[WriteIndex(r.c.log, j, 1)]
        IN CASE e[1] = "update" ->
                   <<"update",
                     IF e[2] = "zs" THEN ZEROSTATE_RIGHT_BOUND_KEY
                     ELSE trusted_block_right_bound_key(TrustedId.seq_no),
                     e[3]>>
             [] e[1] = "write" /\ e[2] = "proof" ->
                   <<"put", mc_proof_key(e[3]), r.c.hist[j + 1][get_storage_key(mc_proof_key(e[3]))]>>
             [] OTHER ->
                   <<"put", ZEROSTATE_KEY, r.c.hist[j + 1][get_storage_key(ZEROSTATE_KEY)]>>]

Advanced(task) ==
    [task EXCEPT !.ops = Tail(@), !.prev = None,
                 !.pc = IF Len(task.ops) = 1 THEN "done" ELSE "run"]

\* a task calls load_key_block_proof(mc_seq_no): its reads see the store as it is
\* now, its writes come one await at a time
StartLoad(t, mc_seq_no) ==
    /\ tasks[t].pc = "idle"
    /\ t = 2 => tasks[1].pc # "idle"
    /\ \E r \in {load_key_block_proof(Ctx(storage, <<>>), mc_seq_no)} :
          tasks' = [tasks EXCEPT ![t] =
                       [pc |-> IF Len(r.c.hist) = 1 THEN "done" ELSE "run",
                        n |-> mc_seq_no, status |-> r.status, ops |-> WriteOps(r),
                        prev |-> None, alone |-> r.c.st,
                        cached |-> HasProof(storage, mc_seq_no),
                        overlap |-> \E u \in Tasks \ {t} : tasks[u].pc \in {"run", "read"}]]
    /\ UNCHANGED <<storage, keyBlocks, head, fault, call, pq, nk, sh>>

\* write_mc_proof / put_bin of the zerostate
PutStep(t) ==
    /\ tasks[t].pc = "run"
    /\ Head(tasks[t].ops)[1] = "put"
    /\ storage' = put_bin(storage, Head(tasks[t].ops)[2], Head(tasks[t].ops)[3])
    /\ tasks' = [tasks EXCEPT ![t] = Advanced(@)]
    /\ UNCHANGED <<keyBlocks, head, fault, call, pq, nk, sh>>

\* update_metadata_value_u32: the read has returned
ReadBound(t) ==
    /\ tasks[t].pc = "run"
    /\ Head(tasks[t].ops)[1] = "update"
    /\ tasks' = [tasks EXCEPT ![t].pc = "read",
                              ![t].prev = read_metadata_value_u32(storage, Head(tasks[t].ops)[2])]
    /\ UNCHANGED <<storage, keyBlocks, head, fault, call, pq, nk, sh>>

\* update_metadata_value_u32: the write of the value computed from what was read
WriteBound(t) ==
    /\ tasks[t].pc = "read"
    /\ storage' = update_metadata_value_u32_write(storage, Head(tasks[t].ops)[2],
                                                   Head(tasks[t].ops)[3], tasks[t].prev, max_value)
    /\ tasks' = [tasks EXCEPT ![t] = Advanced(@)]
    /\ UNCHANGED <<keyBlocks, head, fault, call, pq, nk, sh>>

InitConc ==
    /\ storage = EmptyStore
    /\ keyBlocks \in Chains
    /\ head = MaxSeq + 1
    /\ fault = [kind |-> "none", seq |-> 0]
    /\ call = Idle
    /\ pq = NoPq
    /\ nk = NoNk
    /\ sh = NoSh
    /\ tasks = NoTasks

NextConc ==
    \/ \E mc_seq_no \in 0..MaxSeq :
          /\ storage = EmptyStore
          /\ \A t \in Tasks : tasks[t].pc = "idle"
          /\ LoadKeyBlockProof(mc_seq_no)
    \/ \E t \in Tasks : \E mc_seq_no \in 0..MaxSeq : StartLoad(t, mc_seq_no)
    \/ \E t \in Tasks : PutStep(t)
    \/ \E t \in Tasks : ReadBound(t)
    \/ \E t \in Tasks : WriteBound(t)

SpecConc == InitConc /\ [][NextConc]_vars

\* C16: with several tasks calling load_key_block_proof at once, no interleaving
\* of their bound updates makes a stored bound decrease: no update is lost.
C16_NoLostUpdate ==
    [][\A k \in BoundKeys : k \in DOMAIN storage =>
          /\ k \in DOMAIN storage'
          /\ BoundValue(storage', k) >= BoundValue(storage, k)]_vars

\* C17: two concurrent load_key_block_proof(n) for the same uncached n that both
\* succeed leave the store a single call would have left, whatever the interleaving.
C17_ConcurrentConvergence ==
    (/\ \A t \in Tasks : tasks[t].pc = "done" /\ tasks[t].status = "ok"
     /\ tasks[1].n = tasks[2].n
     /\ ~tasks[1].cached)
        => storage = tasks[1].alone

\* both calls ran at the same time, both had a range to download, and both ended
C17_Witness ==
    /\ \A t \in Tasks : tasks[t].pc = "done" /\ tasks[t].status = "ok"
    /\ tasks[1].n = tasks[2].n
    /\ ~tasks[1].cached /\ ~tasks[2].cached
    /\ tasks[2].overlap
    /\ BoundValue(storage, TrustedKey) >= TrustedSeqNo + 2

\* ---------------------------------------------------------------- the poll loop of check_shard_block
\* sh also holds where the running call stands in its loop: the first_mc_seq_no of
\* its next query, whether it has waited on the timer, and the parity of its turns
InitShardLive ==
    /\ sh \in {[step |-> k, first_mc_seq_no |-> 0, waited |-> FALSE, turn |-> 0]
                  : k \in 1..MaxShardSeq}
    /\ tasks = NoTasks
    /\ storage = EmptyStore
    /\ keyBlocks = 1..MaxSeq
    /\ head = 0
    /\ fault = [kind |-> "none", seq |-> 0]
    /\ call = Idle
    /\ pq = NoPq
    /\ nk = NoNk

\* what the indexer serves for the shard while calls poll: the chain, or the chain
\* with one block missing
PolledShardChains == {RealServed} \cup {OneChanged(i, "missing") : i \in 1..MaxShardSeq}

\* a turn of the loop has ended: the call returned, or it waits on the timer
ShardTurn(boc, waited, r) ==
    /\ storage' = r.c.st
    /\ call' = Returned("check_shard_block", boc, r)
    /\ sh' = [sh EXCEPT !.first_mc_seq_no = IF r.status = "waiting" THEN r.val.some ELSE 0,
                        !.waited = waited \/ r.status = "waiting",
                        !.turn = 1 - @]
    /\ UNCHANGED <<keyBlocks, head, fault, pq, nk, tasks>>

\* the caller, who awaits one check_shard_block at a time, calls it: first turn
StartShardCheck(boc) ==
    /\ call.status # "waiting"
    /\ \E found \in {find_top_shard_block(Ctx(storage, <<>>), boc)} :
          \E served \in PolledShardChains :
             \E r \in {check_top_shard_block(found, boc, served)} :
                ShardTurn(boc, FALSE, r)

\* the timer has fired: next turn of the loop
PollShardBlock ==
    /\ call.op = "check_shard_block" /\ call.status = "waiting"
    /\ \E found \in {find_top_shard_block_from(Ctx(storage, <<>>), sh.first_mc_seq_no, call.arg)} :
          \E served \in PolledShardChains :
             \E r \in {check_top_shard_block(found, call.arg, served)} :
                ShardTurn(call.arg, TRUE, r)

\* the indexer gets the next masterchain block while calls run
IndexerGrows ==
    /\ head <= MaxSeq
    /\ head' = head + 1
    /\ UNCHANGED <<storage, keyBlocks, fault, call, pq, nk, sh, tasks>>

NextShardLive ==
    \/ \E boc \in QueriedShardBlocks : StartShardCheck(boc)
    \/ PollShardBlock
    \/ IndexerGrows

\* a step that was a turn of the loop
LoopTurned == sh'.turn # sh.turn
\* weak fairness of the loop of a pending call, written out: while the call waits
\* on the timer a next turn is always possible, so the call stops waiting or its
\* loop turns again and again (set_timer returns, engine.rs:775)
PollFairness ==
    \/ []<>(~(call.op = "check_shard_block" /\ call.status = "waiting"))
    \/ []<><<LoopTurned>>_vars

\* the timer fires and the loop goes on; the indexer keeps getting blocks
SpecShardLive ==
    InitShardLive /\ [][NextShardLive]_vars /\ WF_vars(IndexerGrows) /\ PollFairness

\* no masterchain block the indexer has, from master_ref on, commits the shard at
\* or beyond the block's seq_no
NotYetCommitted(boc) == \A m \in Max(1, boc.master_ref)..head : TopAt(m) < boc.seq_no
\* the chain has such a block for the indexer to get
WillBeCommitted(boc) == \E m \in Max(1, boc.master_ref)..(MaxSeq + 1) : TopAt(m) >= boc.seq_no

C18_Pending ==
    /\ (call.op = "check_shard_block" /\ NotYetCommitted(call.arg))
          => call.status = "waiting"
    /\ (call.op = "check_shard_block" /\ call.status = "waiting")
          => /\ Len(call.log) >= 2
             /\ Last(call.log) = <<"set_timer", 1000>>
             /\ call.log[Len(call.log) - 1][1] = "query"
             /\ call.log[Len(call.log) - 1][2] = "mc_ge"
             /\ Len(SelectSeq(call.log, LAMBDA e : e[1] = "set_timer")) = 1
             /\ storage = call.before

\* C18: while the indexer has no masterchain block committing the shard block,
\* check_shard_block neither fails nor succeeds: every turn that ends on an empty
\* batch waits on the 1000 ms timer before the next query, nothing is reported to
\* the caller, and once the indexer has a committing block the call returns.
C18_PollLoop ==
    /\ []C18_Pending
    /\ (call.op = "check_shard_block" /\ call.status = "waiting" /\ WillBeCommitted(call.arg))
          ~> (call.op = "check_shard_block" /\ call.status \in {"ok", "err"})

\* a call that waited on the timer and then returned
C18_Witness ==
    /\ call.op = "check_shard_block" /\ call.status = "ok"
    /\ sh.waited
    /\ ~NotYetCommitted(call.arg)

\* ---------------------------------------------------------------- stores with stale bounds
\* a store whose bounds were left by earlier runs, by other tasks or by a backend
\* that lost entries: each bound is absent or holds any seq_no, and the proofs the
\* bounds speak of may be gone
StaleBounds == {None} \cup {Some(v) : v \in 0..(MaxSeq + 1)}

StaleStore(zs, tr, anchored) ==
    LET st0 == IF anchored
               THEN write_mc_proof(EmptyStore, TrustedSeqNo,
                                   [CanonRow(TrustedSeqNo) EXCEPT !.file_hash = FileHash(TrustedSeqNo)])
               ELSE EmptyStore
        st1 == IF zs = None THEN st0
               ELSE write_metadata_value_u32(st0, ZEROSTATE_RIGHT_BOUND_KEY, zs.some)
    IN IF tr = None THEN st1
       ELSE write_metadata_value_u32(st1, trusted_block_right_bound_key(TrustedSeqNo), tr.some)

InitStale ==
    /\ keyBlocks \in Chains
    /\ storage \in {StaleStore(zs, tr, anchored) :
                       zs \in StaleBounds, tr \in StaleBounds, anchored \in BOOLEAN}
    /\ head = MaxSeq
    /\ fault = [kind |-> "none", seq |-> 0]
    /\ call = Idle
    /\ pq = NoPq
    /\ nk = NoNk
    /\ sh = NoSh
    /\ tasks = NoTasks

\* one call on the store as it was found
LoadKeyBlockProofOnce(mc_seq_no) ==
    /\ call = Idle
    /\ LoadKeyBlockProof(mc_seq_no)

NextStale == \E mc_seq_no \in 0..(MaxSeq + 1) : LoadKeyBlockProofOnce(mc_seq_no)

SpecStale == InitStale /\ [][NextStale]_vars

TookUnreachable(log) == \E i \in 1..Len(log) : log[i][1] = "unreachable"

\* C21: whatever n is asked for and whatever bounds the store holds (absent, stale,
\* on the wrong side of the trusted key block), load_key_block_proof never takes
\* its unreachable! branch: a cache miss for n other than the trusted key block,
\* with the trusted proof at hand, downloads exactly one range.
C21_UnreachableNeverTaken ==
    IsLoad(call) =>
        /\ ~TookUnreachable(call.log)
        /\ (call.arg # TrustedSeqNo /\ ~HasProof(call.before, call.arg)
              /\ HasProof(storage, TrustedSeqNo))
              => Len(OwnChains(call.log, 1, 0)) = 1

\* n is the stored trusted bound itself and its proof is gone: the last range
\* branch is the one taken
C21_Witness ==
    /\ IsLoad(call) /\ call.arg > TrustedSeqNo
    /\ TrustedKey \in DOMAIN call.before
    /\ call.arg = BoundValue(call.before, TrustedKey)
    /\ ~HasProof(call.before, call.arg)
    /\ ZsRight(call.before) > TrustedSeqNo
    /\ HasEvent(call.log, <<"download_proof_chain", TrustedSeqNo + 1, call.arg + 1, "trusted">>)

\* ---------------------------------------------------------------- the anchor of a shard block
\* the first_mc_seq_no values of the queries of a turn, in order
ScanStarts(log) ==
    LET q == SelectSeq(log, LAMBDA e : e[1] = "query" /\ e[2] = "mc_ge")
    IN [i \in 1..Len(q) |-> q[i][3]]
\* the masterchain blocks the indexer returns for seq_no >= first
BatchFrom(first) == preprocess_query_result(QueryMc(FALSE, first..(head + 1))).result
\* masterchain blocks the indexer has, from `first` on, that commit the shard block
CommittingFrom(first, boc) == {m \in Max(1, first)..head : TopAt(m) >= boc.seq_no}
Smallest(S) == CHOOSE m \in S : \A k \in S : m <= k
\* the event after the last query for masterchain blocks: the query for the anchor's proof
AfterScan(log) ==
    LET last == CHOOSE i \in 1..Len(log) :
                   /\ log[i][1] = "query" /\ log[i][2] = "mc_ge"
                   /\ \A j \in (i + 1)..Len(log) : ~(log[j][1] = "query" /\ log[j][2] = "mc_ge")
    IN log[last + 1]

\* C25: a turn of check_shard_block scans the masterchain from first_mc on, batch
\* after batch, each batch starting after the last block of the one before; it takes
\* for anchor the smallest masterchain block >= first_mc that the indexer has and
\* whose shard_hashes commits the shard at or beyond the block's seq_no; it finds
\* none only on an empty batch, and then first_mc, which never decreases, is past
\* every block scanned.
C25_AnchorSelection ==
    [][(LoopTurned /\ call'.op = "check_shard_block") =>
          LET boc == call'.arg
              first == IF call.op = "check_shard_block" /\ call.status = "waiting"
                       THEN sh.first_mc_seq_no ELSE boc.master_ref
              starts == ScanStarts(call'.log)
              committing == CommittingFrom(first, boc)
          IN /\ Len(starts) >= 1 /\ starts[1] = first
             /\ \A i \in 2..Len(starts) :
                   /\ starts[i] > starts[i - 1]
                   /\ starts[i] = Last(BatchFrom(starts[i - 1]))[1] + 1
             /\ IF committing # {}
                THEN /\ call'.status # "waiting"
                     /\ AfterScan(call'.log) = <<"query", "mc_block", Smallest(committing)>>
                     /\ Smallest(committing) >= Last(starts)
                ELSE /\ call'.status = "waiting"
                     /\ BatchFrom(Last(starts)) = <<>>
                     /\ sh'.first_mc_seq_no = Last(starts)
                     /\ sh'.first_mc_seq_no >= first]_vars

\* a turn after a wait that went through two batches before it found the anchor
C25_Witness ==
    /\ call.op = "check_shard_block" /\ call.status \in {"ok", "err"}
    /\ sh.waited
    /\ Len(ScanStarts(call.log)) >= 2
    /\ AfterScan(call.log)[1] = "query" /\ AfterScan(call.log)[2] = "mc_block"
    /\ AfterScan(call.log)[3] >= ScanStarts(call.log)[1] + PageLimit

\* ---------------------------------------------------------------- the cached anchor block
\* for the first masterchain block the indexer serves two blocks, a BoC that is
\* not the block of the proof, or the rows of the next block
AnchorFaults ==
    {[kind |-> "none", seq |-> 0]}
    \cup [kind : {"fork_newer_after", "boc_other", "wrong_seq_no"}, seq : {1}]

\* what the indexer serves for the shard: the chain, or the chain with a block changed
AnchorShardChains == {RealServed} \cup {OneChanged(i, "salt") : i \in 2..MaxShardSeq}

\* the shard blocks the application asks about: the oldest and the newest
AnchorQueried == {ShardBoc(i, "real") : i \in {1, MaxShardSeq}}

InitAnchor ==
    /\ sh \in {[step |-> k] : k \in 1..MaxShardSeq}
    /\ tasks = NoTasks
    /\ storage = EmptyStore
    /\ keyBlocks = 1..MaxSeq
    /\ head = MaxShardSeq + 2
    /\ fault = [kind |-> "none", seq |-> 0]
    /\ call = Idle
    /\ pq = NoPq
    /\ nk = NoNk

CheckAnchoredShardBlock(boc) ==
    \E found \in {find_top_shard_block(Ctx(storage, <<>>), boc)} :
       \E served \in AnchorShardChains :
          \E r \in {check_top_shard_block(found, boc, served)} :
             /\ storage' = r.c.st
             /\ call' = Returned("check_shard_block", boc, r)
             /\ UNCHANGED <<keyBlocks, head, fault, pq, nk, sh, tasks>>

AnchorFault ==
    /\ fault.kind = "none"
    /\ fault' \in AnchorFaults \ {fault}
    /\ call' = Idle
    /\ UNCHANGED <<storage, keyBlocks, head, pq, nk, sh, tasks>>

NextAnchor ==
    \/ \E boc \in AnchorQueried : CheckAnchoredShardBlock(boc)
    \/ AnchorFault
    \/ IndexerRepair

SpecAnchor == InitAnchor /\ [][NextAnchor]_vars

BlockKey(m) == StoreKey(<<"block_mc_", m>>)
HasBlock(st, m) == BlockKey(m) \in DOMAIN st
\* the anchor of the call: the masterchain block whose proof it asked for after the scan
AnchorOf(c) == AfterScan(c.log)[3]
HasAnchor(c) ==
    /\ IsShardCheck(c)
    /\ \E i \in 1..Len(c.log) : c.log[i][1] = "query" /\ c.log[i][2] = "mc_block"
AcceptedProofs(c) == LogEvents(c, "anchor_proof")
\* the BoC download_mc_boc gets for the anchor: the cached one, or the indexer's
AnchorBoc(c) ==
    IF HasBlock(c.before, AnchorOf(c)) THEN c.before[BlockKey(AnchorOf(c))]
    ELSE RowBoc(preprocess_query_result(QueryMc(FALSE, {AnchorOf(c)})).result[1][2])

C27_State ==
    HasAnchor(call) =>
        LET m == AnchorOf(call)
            writes == SelectSeq(call.log, LAMBDA e : e[1] = "write" /\ e[2] = "block")
        IN /\ Len(writes) <= 1
           /\ \A k \in 1..(MaxSeq + 1) :
                 IF k = m /\ Len(writes) = 1
                 THEN /\ HasBlock(storage, k)
                      /\ Len(AcceptedProofs(call)) = 1
                      /\ AcceptedProofs(call)[1][2] = m
                      /\ writes[1][3] = m
                      /\ \E v \in 1..Len(call.log) :
                            /\ call.log[v] = <<"write", "block", m>>
                            /\ FirstEvent(call.log, "anchor_proof", 1) < v
                      /\ repr_hash(storage[BlockKey(k)]) = AcceptedProofs(call)[1][3].root_hash
                      /\ AcceptedProofs(call)[1][3].root_hash = RootHash(AcceptedProofs(call)[1][3].seq_no)
                 ELSE /\ HasBlock(storage, k) <=> HasBlock(call.before, k)
                      /\ HasBlock(storage, k) => storage[BlockKey(k)] = call.before[BlockKey(k)]
           /\ (Len(AcceptedProofs(call)) = 0
                 \/ repr_hash(AnchorBoc(call)) # AcceptedProofs(call)[1][3].root_hash)
                 => call.status = "err" /\ Len(writes) = 0

\* C27: check_shard_block writes block_mc of the anchor only after check_proof
\* accepted the proof served for the anchor and the BoC's representation hash is
\* that proof's root_hash; when the proof is refused or the hashes differ it fails
\* and writes no block_mc entry; a written entry stays stored, also when the call
\* fails on the shard chain afterwards, and in every later call.
C27_AnchorBlockCaching ==
    /\ []C27_State
    /\ [][\A k \in 1..(MaxSeq + 1) : HasBlock(storage, k) =>
              /\ HasBlock(storage', k)
              /\ repr_hash(storage'[BlockKey(k)]) = repr_hash(storage[BlockKey(k)])]_vars

\* the anchor's block was stored and the call failed on the shard blocks it fetched
C27_Witness ==
    /\ HasAnchor(call) /\ call.status = "err"
    /\ FetchedRun(call)
    /\ ~HasBlock(call.before, AnchorOf(call))
    /\ HasBlock(storage, AnchorOf(call))

\* check_proof refused the proof served for the anchor
C27_WitnessRefused ==
    /\ HasAnchor(call) /\ call.status = "err"
    /\ fault.kind = "fork_newer_after" /\ fault.seq = AnchorOf(call)
    /\ Len(AcceptedProofs(call)) = 0
    /\ HasEvent(call.log, <<"check_proof", AnchorOf(call)>>)
    /\ ~HasBlock(storage, AnchorOf(call))

\* the proof was accepted and the BoC served has another hash
C27_WitnessOtherBoc ==
    /\ HasAnchor(call) /\ call.status = "err"
    /\ fault.kind = "boc_other" /\ fault.seq = AnchorOf(call)
    /\ Len(AcceptedProofs(call)) = 1
    /\ ~HasBlock(storage, AnchorOf(call))

\* ---------------------------------------------------------------- shard_hashes ahead of the block
\* the row of one masterchain block claims a newer top shard block than the block
\* commits; the indexer may also ignore the seq_no filter of the shard query
AheadFaults ==
    {[kind |-> "none", seq |-> 0]}
    \cup [kind : {"shards_ahead", "shards_ahead_unfiltered"}, seq : 1..MaxShardSeq]

AheadQueried == {ShardBoc(i, "real") : i \in 1..MaxShardSeq}

AheadFault ==
    /\ fault.kind = "none"
    /\ fault' \in AheadFaults \ {fault}
    /\ call' = Idle
    /\ UNCHANGED <<storage, keyBlocks, head, pq, nk, sh, tasks>>

NextAhead ==
    \/ \E boc \in AheadQueried : CheckAnchoredShardBlock(boc)
    \/ AheadFault
    \/ IndexerRepair

SpecAhead == InitAnchor /\ [][NextAhead]_vars

\* the call verified an anchor whose top shard block is below the queried block
TopBelow(c) ==
    /\ IsShardCheck(c)
    /\ Len(LogEvents(c, "top")) = 1
    /\ LogEvents(c, "top")[1][2] < c.arg.seq_no

\* C31: check_shard_block never succeeds when the top shard block committed by the
\* verified anchor has a seq_no below the queried block's: the range of shard
\* blocks it asks for, n_s + 1 .. top_seq_no + 1, is empty, and the call fails
\* on that query, before any shard block is walked.
C31_TopBelowFails ==
    TopBelow(call) =>
        /\ call.status = "err"
        /\ Last(call.log) = <<"query", "shard_in", call.arg.seq_no + 1,
                               LogEvents(call, "top")[1][2] + 1>>
        /\ (call.arg.seq_no + 1)..LogEvents(call, "top")[1][2] = {}
        /\ Len(LogEvents(call, "shard_chain")) = 0

\* the indexer's shard_hashes pointed at an anchor that commits an older shard block
C31_Witness ==
    /\ TopBelow(call) /\ call.status = "err"
    /\ fault.kind = "shards_ahead"
    /\ AnchorOf(call) = fault.seq
    /\ HasBlock(storage, AnchorOf(call))

\* the same, and the indexer answered the query for the empty range with blocks
C31_WitnessUnfiltered ==
    /\ TopBelow(call) /\ call.status = "err"
    /\ fault.kind = "shards_ahead_unfiltered"
    /\ AnchorOf(call) = fault.seq
    /\ ShardAnswer(RealServed, call.arg.seq_no + 1, LogEvents(call, "top")[1][2] + 1) # <<>>

====
